---- MODULE Spec2Model ----
(***************************************************************************)
(* A model of the action-resolution core of MyMobileApocalypse:           *)
(* survivor.py, zombies.py, utils.py, game.py (resource ledger),          *)
(* event_resolver.py, decision_engine.py and combat_engine.py.            *)
(*                                                                         *)
(* Numbers.  Health, stress, rolls and ledger quantities are integers.    *)
(* The code computes in Python floats; the only non-integral values that   *)
(* reach the modelled state are halves (damage / 2, defense * 0.5,         *)
(* (AGI + STR) / 2, Injury_chance 0.5).  Such a value is carried doubled,  *)
(* in an operand whose name ends in 2 (amount2 = 2 * amount).              *)
(***************************************************************************)
EXTENDS Integers, Sequences, FiniteSets, TLC

VARIABLES
    survivors,          \* the survivor roster: a sequence of Survivor records
    zombies,            \* the zombie roster: a sequence of Zombie records
    global_resources,   \* Game.global_resources: a function name -> quantity
    pc,                 \* position of the control thread
    environment_mods,   \* resolve_combat: [Fog: BOOLEAN]
    node_danger,        \* resolve_combat: danger level of the node
    active_survivors,   \* resolve_combat: sequence of indices into survivors
    active_zombies,     \* resolve_combat: sequence of indices into zombies
    combat_round,       \* resolve_combat: the round counter
    idx,                \* resolve_combat: next position of the running for loop
    outcome_summary,    \* resolve_combat: the returned summary
    hits,               \* history of the running combat (see CombatBegin)
    calls,              \* number of top-level calls made so far
    last,               \* the last call completed: its name and arguments
    ret,                \* what that call returned
    decision,           \* make_decision: the call in progress and what it did
    rng,                \* the generator of module random: its mode and draws
    saved,              \* a replay: the state and call to repeat, the first result
    io,                 \* the PygameIO object shared by the worker and the UI
    threads,            \* the worker and the UI thread: position and locals
    creation,           \* character_creation_menu: the points and the choices
    game_day,           \* Game.game_day
    game_map            \* Game.game_map: a function node id -> Node record

vars == <<survivors, zombies, global_resources, pc, environment_mods, node_danger,
          active_survivors, active_zombies, combat_round, idx, outcome_summary,
          hits, calls, last, ret, decision, rng, saved, io, threads, creation,
          game_day, game_map>>

\* the host application around the engine
hostVars == <<io, threads, creation, game_day, game_map>>

combatVars == <<environment_mods, node_danger, active_survivors, active_zombies,
                combat_round, idx, outcome_summary, hits>>

-----------------------------------------------------------------------------
(* Arithmetic helpers *)

Min(a, b) == IF a <= b THEN a ELSE b

Max(a, b) == IF a >= b THEN a ELSE b

\* math.ceil(n / d) for d > 0 (\div rounds toward minus infinity)
Ceil(n, d) == -((-n) \div d)

\* max(0, min(100, chance)), on a doubled chance
Clamp2(chance2) == Max(0, Min(200, chance2))

\* max(0, min(100, chance))
Clamp(chance) == Max(0, Min(100, chance))

\* Python evaluates amount * (1 - percent / 100) in binary floating point
\* before math.ceil.  For the percentages min(5 * attr, 50), attr in 1..10,
\* and 0 <= amount <= 300 in steps of one half, the float product rounds
\* above an integral exact product only for percent = 45 (1 - 0.45 is
\* 0.55000000000000004) and the amounts below, where the ceiling is one
\* more than the exact one; for -300 <= amount < 0 it rounds above only for
\* percent = 30 and amounts -90, -170, -180.
FloatCeilExcess(amount2, percent) ==
    IF \/ percent = 45 /\ amount2 \in {200, 360, 400, 440}
       \/ percent = 30 /\ amount2 \in {-180, -340, -360}
    THEN 1 ELSE 0

\* math.ceil(amount * (1 - percent / 100)), amount = amount2 / 2
CeilReduced(amount2, percent) ==
    Ceil(amount2 * (100 - percent), 200) + FloatCeilExcess(amount2, percent)

-----------------------------------------------------------------------------
(* survivor.py: class Survivor *)

base_max_hp == 40

base_max_stress == 40

AttributeNames == {"STR", "AGI", "INT", "PER", "CHR", "CON", "SAN"}

calculate_max_hp(attributes) == base_max_hp + attributes.CON * 10

calculate_max_stress(attributes) == base_max_stress + attributes.SAN * 10

\* Survivor.__init__ followed by learn_skill for every entry of skills
\* (skills is a function from the learned skill names to their levels)
Survivor(attributes, skills) ==
    [ name           |-> "Unnamed",
      attributes     |-> attributes,
      skills         |-> skills,
      traits         |-> << >>,
      inventory      |-> << >>,
      max_hp         |-> calculate_max_hp(attributes),
      current_hp     |-> calculate_max_hp(attributes),
      max_stress     |-> calculate_max_stress(attributes),
      current_stress |-> 0,
      is_alive       |-> TRUE,
      is_injured     |-> FALSE,
      is_stressed    |-> FALSE ]

\* survivor.skills.get(name, 0)
SkillLevel(s, name) == IF name \in DOMAIN s.skills THEN s.skills[name] ELSE 0

\* take_damage without the reset of a negative current_hp to 0
Survivor_take_damage_NoFloor(s, amount) ==
    IF ~s.is_alive THEN s
    ELSE LET damage_reduction_percent == Min(s.attributes.CON * 5, 50)
             actual_damage == CeilReduced(2 * amount, damage_reduction_percent)
             hp == s.current_hp - actual_damage
         IN  IF hp <= 0
             THEN [s EXCEPT !.current_hp = hp, !.is_alive = FALSE, !.is_injured = TRUE]
             ELSE [s EXCEPT !.current_hp = hp, !.is_injured = (2 * hp < s.max_hp)]

\* Survivor.take_damage(amount)
Survivor_take_damage(s, amount) ==
    IF ~s.is_alive THEN s
    ELSE LET damage_reduction_percent == Min(s.attributes.CON * 5, 50)
             actual_damage == CeilReduced(2 * amount, damage_reduction_percent)
             hp == s.current_hp - actual_damage
         IN  IF hp <= 0
             THEN [s EXCEPT !.current_hp = 0, !.is_alive = FALSE, !.is_injured = TRUE]
             ELSE IF 2 * hp < s.max_hp
                  THEN [s EXCEPT !.current_hp = hp, !.is_injured = TRUE]
                  ELSE [s EXCEPT !.current_hp = hp, !.is_injured = FALSE]

\* Survivor.gain_stress(amount), amount = amount2 / 2
gain_stress(s, amount2) ==
    IF ~s.is_alive THEN s
    ELSE LET stress_mitigation_percent == Min(s.attributes.SAN * 5, 50)
             actual_stress_gain == CeilReduced(amount2, stress_mitigation_percent)
             stress == s.current_stress + actual_stress_gain
         IN  IF stress > s.max_stress
             THEN [s EXCEPT !.current_stress = s.max_stress, !.is_stressed = TRUE]
             ELSE IF 4 * stress > 3 * s.max_stress
                  THEN [s EXCEPT !.current_stress = stress, !.is_stressed = TRUE]
                  ELSE [s EXCEPT !.current_stress = stress, !.is_stressed = FALSE]

\* reduce_stress paid for with a point of health
reduce_stress_CostsHealth(s, amount) ==
    IF ~s.is_alive THEN s
    ELSE LET stress == Max(0, s.current_stress - amount)
         IN  [s EXCEPT !.current_stress = stress,
                       !.current_hp = @ - 1,
                       !.is_stressed = IF 4 * stress <= 3 * s.max_stress
                                       THEN FALSE ELSE s.is_stressed]

\* reduce_stress leaving the flag as it was
reduce_stress_FlagKept(s, amount) ==
    IF ~s.is_alive THEN s
    ELSE [s EXCEPT !.current_stress = Max(0, s.current_stress - amount)]

\* Survivor.reduce_stress(amount)
reduce_stress(s, amount) ==
    IF ~s.is_alive THEN s
    ELSE LET stress == Max(0, s.current_stress - amount)
         IN  [s EXCEPT !.current_stress = stress,
                       !.is_stressed = IF 4 * stress <= 3 * s.max_stress
                                       THEN FALSE ELSE s.is_stressed]

\* heal without the cap at max_hp
heal_NoCap(s, amount) ==
    IF ~s.is_alive THEN s
    ELSE LET hp == s.current_hp + amount
         IN  [s EXCEPT !.current_hp = hp,
                       !.is_injured = IF 2 * hp >= s.max_hp
                                      THEN FALSE ELSE s.is_injured]

\* Survivor.heal(amount)
heal(s, amount) ==
    IF ~s.is_alive THEN s
    ELSE LET hp == Min(s.max_hp, s.current_hp + amount)
         IN  [s EXCEPT !.current_hp = hp,
                       !.is_injured = IF 2 * hp >= s.max_hp
                                      THEN FALSE ELSE s.is_injured]

\* Survivor.learn_skill(skill_name, level), level >= 0
learn_skill(s, skill_name, level) ==
    [s EXCEPT !.skills = [n \in DOMAIN s.skills \cup {skill_name} |->
                             IF n = skill_name THEN level ELSE s.skills[n]]]

\* Survivor.add_trait(trait_name)
add_trait(s, trait_name) ==
    IF \E i \in DOMAIN s.traits : s.traits[i] = trait_name THEN s
    ELSE [s EXCEPT !.traits = Append(@, trait_name)]

\* data.get(key, default)
DictGet(data, key, default) == IF key \in DOMAIN data THEN data[key] ELSE default

\* Survivor.to_dict(): the plain dict written to the save file
to_dict(s) ==
    [ name            |-> s.name,
      attributes      |-> s.attributes,
      skills          |-> s.skills,
      traits          |-> s.traits,
      inventory       |-> s.inventory,
      base_max_hp     |-> base_max_hp,
      max_hp          |-> s.max_hp,
      current_hp      |-> s.current_hp,
      base_max_stress |-> base_max_stress,
      max_stress      |-> s.max_stress,
      current_stress  |-> s.current_stress,
      is_alive        |-> s.is_alive,
      is_injured      |-> s.is_injured,
      is_stressed     |-> s.is_stressed ]

\* the survivor the constructor call of from_dict builds: the stored name
\* and attributes, everything else as new
from_dict_constructed(data) ==
    [ Survivor([a \in AttributeNames |-> DictGet(DictGet(data, "attributes", << >>), a, 1)],
               << >>)
      EXCEPT !.name = DictGet(data, "name", "Unnamed") ]

\* from_dict restoring nothing after the constructor call
from_dict_ConstructorOnly(data) == from_dict_constructed(data)

\* Survivor.from_dict(data): the constructor call, then the other fields
\* restored from data, each defaulting to what the constructor set
from_dict(data) ==
    LET s == from_dict_constructed(data)
    IN  [s EXCEPT !.skills         = DictGet(data, "skills", << >>),
                  !.traits         = DictGet(data, "traits", << >>),
                  !.inventory      = DictGet(data, "inventory", << >>),
                  !.max_hp         = DictGet(data, "max_hp", s.max_hp),
                  !.current_hp     = DictGet(data, "current_hp", s.current_hp),
                  !.max_stress     = DictGet(data, "max_stress", s.max_stress),
                  !.current_stress = DictGet(data, "current_stress", s.current_stress),
                  !.is_alive       = DictGet(data, "is_alive", s.is_alive),
                  !.is_injured     = DictGet(data, "is_injured", s.is_injured),
                  !.is_stressed    = DictGet(data, "is_stressed", s.is_stressed)]

\* Game.save_to_file(path): the day, the ledger and the survivors' dicts, as
\* the file holds them
save_to_file(day, ledger, survs) ==
    [ game_day         |-> day,
      global_resources |-> ledger,
      survivors        |-> [i \in DOMAIN survs |-> to_dict(survs[i])] ]

\* Game.load_from_file(path): the Game rebuilt from what the file holds
load_from_file(data) ==
    [ game_day         |-> data.game_day,
      global_resources |-> data.global_resources,
      survivors        |-> [i \in DOMAIN data.survivors |-> from_dict(data.survivors[i])] ]

-----------------------------------------------------------------------------
(* zombies.py: class Zombie *)

\* Zombie.__init__
Zombie(base_hp, damage, defense) ==
    [ base_hp    |-> base_hp,
      current_hp |-> base_hp,
      damage     |-> damage,
      defense    |-> defense,
      is_alive   |-> TRUE ]

\* Zombie.take_damage(amount): no is_alive guard
Zombie_take_damage(z, amount) ==
    LET hp == z.current_hp - amount
    IN  IF hp <= 0
        THEN [z EXCEPT !.current_hp = 0, !.is_alive = FALSE]
        ELSE [z EXCEPT !.current_hp = hp]

-----------------------------------------------------------------------------
(* utils.py *)

\* the values random.randint(1, 100) can return
D100 == 1..100

\* chance_check(percentage) raises ValueError; percentage = percentage2 / 2
chance_check_raises(percentage2) == ~(0 <= percentage2 /\ percentage2 <= 200)

\* chance_check rolling on a generator of its own, which random.seed does not
\* reach: in a run under a repeated seed its roll is not the roll of the
\* first run (here the mirrored one)
chance_check_OwnGenerator(percentage2, roll) ==
    2 * (IF rng.mode = "replay" THEN 101 - roll ELSE roll) <= percentage2

\* chance_check with a roll that has to stay below the percentage
chance_check_Below(percentage2, roll) == 2 * roll < percentage2

\* chance_check(percentage) when it does not raise, given the roll_d100() it draws
chance_check(percentage2, roll) == 2 * roll <= percentage2

\* roll_dice(num_sides) raises ValueError
roll_dice_raises(num_sides) == num_sides < 1

\* the values roll_dice(num_sides) can return: random.randint(1, num_sides)
roll_dice(num_sides) == 1..num_sides

-----------------------------------------------------------------------------
(* The generator of module random, which roll_dice, roll_d100, random.shuffle *)
(* and random.choice all draw from.  rng.mode is "free" while the seed is     *)
(* unknown: every draw can have every value.  After random.seed(n) the        *)
(* draws are the ones that seed fixes: in mode "record" a first run under     *)
(* the seed appends each draw to rng.draws, in mode "replay" a run under      *)
(* the same seed is given rng.draws back, one draw after the other.  A run    *)
(* that asks for another kind of draw than the first run did at the same      *)
(* position is served from the same generator state with a value the first    *)
(* run never saw: rng.mode becomes "diverged".                                *)

\* what a method without a return statement returns (a record, as every
\* other value ret takes in a combat is one)
None == [none |-> TRUE]

Unseeded == [mode |-> "free", draws |-> << >>]

\* roll_d100(): random.randint(1, 100) returning roll
DrawD100(roll) == [kind |-> "randint", range |-> 100, value |-> roll]

\* random.choice(list) returning list[k]
DrawChoice(list, k) == [kind |-> "choice", range |-> Len(list), value |-> k]

\* random.shuffle(list) leaving list[p[1]], list[p[2]], ... in the list
DrawShuffle(list, p) == [kind |-> "shuffle", range |-> Len(list), value |-> p]

\* the draws ds served from the recorded draws pending: ok is FALSE when a
\* recorded draw of the same kind and range has another value than ds asks
RECURSIVE Replayed(_, _)
Replayed(pending, ds) ==
    IF ds = << >> THEN [ok |-> TRUE, diverged |-> FALSE, rest |-> pending]
    ELSE IF pending = << >>
         THEN [ok |-> TRUE, diverged |-> TRUE, rest |-> << >>]
    ELSE IF Head(pending).kind # Head(ds).kind \/ Head(pending).range # Head(ds).range
         THEN [ok |-> TRUE, diverged |-> TRUE, rest |-> << >>]
    ELSE IF Head(pending).value # Head(ds).value
         THEN [ok |-> FALSE, diverged |-> FALSE, rest |-> pending]
    ELSE Replayed(Tail(pending), Tail(ds))

\* the generator yields the draws ds, in this order
Draw(ds) ==
    IF rng.mode = "record" THEN rng' = [rng EXCEPT !.draws = @ \o ds]
    ELSE IF rng.mode = "replay"
         THEN /\ Replayed(rng.draws, ds).ok
              /\ rng' = IF Replayed(rng.draws, ds).diverged
                        THEN [mode |-> "diverged", draws |-> << >>]
                        ELSE [rng EXCEPT !.draws = Replayed(rng.draws, ds).rest]
    ELSE rng' = rng

-----------------------------------------------------------------------------
(* game.py: the resource ledger of class Game *)

\* Game.__init__: global_resources
InitialResources ==
    [n \in {"Food", "Water", "Fuel", "Scrap", "Ammunition", "ElectronicParts"} |-> 0]

\* the Python type of the quantity the shipped descriptors give a reward
\* key: Base_Defense_Bonus is the float 0.10, UnlocksBaseUpgrade the str
\* "Generator", every other quantity an int.  A float is carried in
\* hundredths as [float100 |-> h], a str as the text and the number of times
\* it is repeated, [str |-> s, repeated |-> n].
QuantityType(resource_name) ==
    IF resource_name = "Base_Defense_Bonus" THEN "float"
    ELSE IF resource_name = "UnlocksBaseUpgrade" THEN "str"
    ELSE "int"

\* qty * n, for the quantity of resource_name and an int n
Times(resource_name, qty, n) ==
    IF QuantityType(resource_name) = "float" THEN [float100 |-> qty.float100 * n]
    ELSE IF QuantityType(resource_name) = "str"
         THEN [str |-> qty.str, repeated |-> qty.repeated * n]
    ELSE qty * n

\* a + b, for two quantities of resource_name
Plus(resource_name, a, b) ==
    IF QuantityType(resource_name) = "float" THEN [float100 |-> a.float100 + b.float100]
    ELSE IF QuantityType(resource_name) = "str"
         THEN [str |-> a.str, repeated |-> a.repeated + b.repeated]
    ELSE a + b

\* add_resource storing the quantity in place of the sum
add_resource_Overwrite(ledger, resource_name, quantity) ==
    [n \in DOMAIN ledger \cup {resource_name} |->
        IF n = resource_name THEN quantity ELSE ledger[n]]

\* Game.add_resource(resource_name, quantity): the ledger afterwards
add_resource(ledger, resource_name, quantity) ==
    IF resource_name \in DOMAIN ledger
    THEN [ledger EXCEPT ![resource_name] = Plus(resource_name, @, quantity)]
    ELSE [n \in DOMAIN ledger \cup {resource_name} |->
            IF n = resource_name THEN quantity ELSE ledger[n]]

\* Game.remove_resource(resource_name, quantity): the value returned
remove_resource_ok(ledger, resource_name, quantity) ==
    resource_name \in DOMAIN ledger /\ ledger[resource_name] >= quantity

\* Game.remove_resource(resource_name, quantity): the ledger afterwards
remove_resource(ledger, resource_name, quantity) ==
    IF remove_resource_ok(ledger, resource_name, quantity)
    THEN [ledger EXCEPT ![resource_name] = @ - quantity]
    ELSE ledger

\* self.global_resources.get(name, 0)
Quantity(ledger, name) == IF name \in DOMAIN ledger THEN ledger[name] ELSE 0

-----------------------------------------------------------------------------
(* items.py, crafting.py *)

\* RECIPES["Ammo"], which RECIPES["Ammunition"] is an alias of
AmmunitionRecipe ==
    [ requires |-> [Scrap |-> 3],
      produces |-> [resource |-> "Ammunition", quantity |-> 5] ]

\* RECIPES of items.py, the success chances in thousandths
RECIPES ==
    [ Medkit         |-> [ requires |-> [Scrap |-> 5, ElectronicParts |-> 2],
                           produces |-> [item |-> "Medkit", quantity |-> 1] ],
      Bandage        |-> [ requires |-> [Scrap |-> 1],
                           produces |-> [item |-> "Bandage", quantity |-> 1] ],
      Ammo           |-> AmmunitionRecipe,
      AdvancedMedkit |-> [ requires |-> [Scrap |-> 8, ElectronicParts |-> 4],
                           produces |-> [item |-> "Medkit", quantity |-> 2] ],
      RepairKit      |-> [ requires |-> [Scrap |-> 6, ElectronicParts |-> 1],
                           produces |-> [item |-> "RepairKit", quantity |-> 1] ],
      Ammunition     |-> AmmunitionRecipe,
      Pistol         |-> [ requires |-> [Scrap |-> 10, ElectronicParts |-> 4],
                           produces |-> [item |-> "Pistol", quantity |-> 1],
                           base_success_chance |-> 800 ],
      AmmoBulk       |-> [ requires |-> [Scrap |-> 10],
                           produces |-> [resource |-> "Ammunition", quantity |-> 25],
                           base_success_chance |-> 950 ] ]

\* craft_item, lines 27-29: the recipe produces the resource or item recipe_id
recipe_produces(r, recipe_id) ==
    \/ "resource" \in DOMAIN r.produces /\ r.produces.resource = recipe_id
    \/ "item" \in DOMAIN r.produces /\ r.produces.item = recipe_id

\* craft_item, lines 24-31: RECIPES.get(recipe_id), else a recipe producing
\* recipe_id (every name the recipes above produce is itself a key, so the
\* search finds nothing for an id that is not a key), else None
find_recipe(recipe_id) ==
    IF recipe_id \in DOMAIN RECIPES THEN RECIPES[recipe_id]
    ELSE LET found == {r_id \in DOMAIN RECIPES : recipe_produces(RECIPES[r_id], recipe_id)}
         IN  IF found = {} THEN None ELSE RECIPES[CHOOSE r_id \in found : TRUE]

\* craft_item checking any one requirement in place of all of them
CraftAvailable_AnyOne(ledger, required) ==
    \E k \in DOMAIN required : Quantity(ledger, k) >= required[k]

\* craft_item taking the recipe's amounts whatever the crafter's skill
CraftRequired_Unskilled(recipe, mech_level, quantity) ==
    [k \in DOMAIN recipe.requires |-> recipe.requires[k] * quantity]

\* craft_item, lines 43-47: required[k] = max(0, v - mech_level) * quantity
CraftRequired(recipe, mech_level, quantity) ==
    [k \in DOMAIN recipe.requires |-> Max(0, recipe.requires[k] - mech_level) * quantity]

\* craft_item, lines 49-52: the ledger holds every required amount
CraftAvailable(ledger, required) ==
    \A k \in DOMAIN required : Quantity(ledger, k) >= required[k]

\* craft_item, lines 54-59: remove_resource for every positive amount
CraftConsume(ledger, required) ==
    [n \in DOMAIN ledger |->
        IF n \in DOMAIN required /\ required[n] > 0
        THEN remove_resource(ledger, n, required[n])[n]
        ELSE ledger[n]]

\* craft_item, lines 55-59: the consumed map
CraftConsumed(required) ==
    [k \in {n \in DOMAIN required : required[n] > 0} |-> required[k]]

\* craft_item, lines 61-66: the quantity produced before the critical doubling
CraftProduced(recipe, mech_level, quantity) ==
    IF "quantity" \in DOMAIN recipe.produces
    THEN recipe.produces.quantity * quantity + mech_level
    ELSE 1 * quantity + mech_level

default_success_chance == 900

\* craft_item, lines 69-71: min(0.99, base_success + 0.03 * mech_level), in
\* thousandths
craft_success_chance(recipe, mech_level) ==
    Min(990, (IF "base_success_chance" \in DOMAIN recipe
              THEN recipe.base_success_chance ELSE default_success_chance)
             + 30 * mech_level)

\* craft_item, line 76: min(0.5, 0.05 + 0.02 * mech_level), in thousandths
craft_crit_chance(mech_level) == Min(500, 50 + 20 * mech_level)

\* Survivor.add_item_to_inventory raising ValueError
add_item_raises(quantity) == quantity < 1

\* Survivor.add_item_to_inventory(item_name, quantity): the survivor afterwards
add_item_to_inventory(s, item_name, quantity) ==
    [s EXCEPT !.inventory =
        [n \in DOMAIN s.inventory \cup {item_name} |->
            (IF n \in DOMAIN s.inventory THEN s.inventory[n] ELSE 0)
            + (IF n = item_name THEN quantity ELSE 0)]]

\* the result dictionary of craft_item
CraftResult(success, produced_qty, consumed) ==
    [success |-> success, produced_qty |-> produced_qty, consumed |-> consumed]

\* craft_item(game, recipe_id, quantity, survivor, rng) on the ledger and the
\* crafter (None for no survivor), the generator yielding roll and crit_roll
\* in thousandths: the ledger and the crafter afterwards, the value returned
\* or the exception raised, and the numbers drawn
craft_item(ledger, recipe_id, quantity, crafter, roll, crit_roll) ==
    LET recipe == find_recipe(recipe_id)
        mech_level == IF crafter = None THEN 0 ELSE SkillLevel(crafter, "Mechanics")
        required == CraftRequired(recipe, mech_level, quantity)
        spent == CraftConsume(ledger, required)
        is_success == roll <= craft_success_chance(recipe, mech_level)
        is_critical == is_success /\ crit_roll <= craft_crit_chance(mech_level)
        base_qty == CraftProduced(recipe, mech_level, quantity)
        produced_qty == IF is_critical THEN base_qty * 2 ELSE base_qty
        unchanged == [ledger |-> ledger, crafter |-> crafter, raised |-> FALSE]
    IN  IF recipe = None
        THEN unchanged @@ [result |-> CraftResult(FALSE, 0, << >>), drawn |-> 0]
        ELSE IF ~CraftAvailable(ledger, required)
        THEN unchanged @@ [result |-> CraftResult(FALSE, 0, << >>), drawn |-> 0]
        ELSE IF ~is_success
        THEN [unchanged EXCEPT !.ledger = spent] @@
             [result |-> CraftResult(FALSE, 0, CraftConsumed(required)), drawn |-> 1]
        ELSE IF "item" \in DOMAIN recipe.produces /\ crafter # None
                /\ add_item_raises(produced_qty)
        THEN [unchanged EXCEPT !.ledger = spent, !.raised = TRUE] @@
             [result |-> None, drawn |-> 2]
        ELSE [ ledger  |-> IF "item" \in DOMAIN recipe.produces
                           THEN IF crafter # None THEN spent
                                ELSE add_resource(spent, recipe.produces.item, produced_qty)
                           ELSE IF "resource" \in DOMAIN recipe.produces
                                THEN add_resource(spent, recipe.produces.resource, produced_qty)
                                ELSE spent,
               crafter |-> IF "item" \in DOMAIN recipe.produces /\ crafter # None
                           THEN add_item_to_inventory(crafter, recipe.produces.item,
                                                      produced_qty)
                           ELSE crafter,
               raised  |-> FALSE,
               result  |-> CraftResult(TRUE, produced_qty, CraftConsumed(required)),
               drawn   |-> 2 ]

-----------------------------------------------------------------------------
(* io_handler.py: PygameIO, shared by the worker thread (print, input,      *)
(* present_choices) and the UI thread (pop_output, provide_input,           *)
(* provide_choice, get_pending_prompt, get_pending_choices).  The blocks     *)
(* under self._prompt_lock are single steps: every access to the fields they *)
(* touch is made under the lock.  print and pop_output take no lock and are  *)
(* split where another thread can run: between reading the attribute         *)
(* self.output, the call made on the list read, and the assignment.          *)
(* A Python string is the record Str(s), so that it compares with None.      *)

Str(s) == [str |-> s]

\* the cap print keeps the buffer under
OUTPUT_CAP == 1000

\* PygameIO.__init__: heap holds the list objects self.output has named,
\* events the threading.Event objects created (TRUE once set); the attributes
\* present_choices creates later read as None (getattr(self, name, None))
NoIO ==
    [ heap             |-> << << >> >>,
      output           |-> 1,
      events           |-> << >>,
      _prompt          |-> None,
      _prompt_event    |-> None,
      _response        |-> None,
      _choices         |-> None,
      _choice_event    |-> None,
      _choice_response |-> None ]

\* provide_choice leaving the response unset
provide_choice_NoResponse(obj, index) ==
    IF obj._choice_event = None THEN obj
    ELSE [obj EXCEPT !.events[obj._choice_event.event] = TRUE]

\* PygameIO.provide_choice(index): the object afterwards
provide_choice(obj, index) ==
    IF obj._choice_event = None THEN obj
    ELSE [obj EXCEPT !._choice_response = Str(index),
                     !.events[obj._choice_event.event] = TRUE]

\* PygameIO.provide_input(response): the object afterwards
provide_input(obj, response) ==
    IF obj._prompt_event = None THEN obj
    ELSE [obj EXCEPT !._response = Str(response),
                     !.events[obj._prompt_event.event] = TRUE]

\* PygameIO.get_pending_prompt()
get_pending_prompt(obj) == obj._prompt

\* PygameIO.get_pending_choices(): None for no list or an empty one
get_pending_choices(obj) ==
    IF obj._choices = None \/ obj._choices.list = << >> THEN None
    ELSE [prompt |-> obj._prompt, options |-> obj._choices.list]

\* PygameIO.input, lines 64-68: the prompt is set and a new Event created
input_begin(obj, prompt) ==
    [obj EXCEPT !._prompt = Str(prompt),
                !._response = None,
                !.events = Append(@, FALSE),
                !._prompt_event = [event |-> Len(obj.events) + 1]]

\* PygameIO.input, lines 73-78: the prompt state is cleared
input_end(obj) ==
    [obj EXCEPT !._prompt = None, !._prompt_event = None, !._response = None]

\* PygameIO.present_choices, lines 110-115
present_choices_begin(obj, prompt, options) ==
    [obj EXCEPT !._prompt = Str(prompt),
                !._choices = [list |-> options],
                !._choice_response = None,
                !.events = Append(@, FALSE),
                !._choice_event = [event |-> Len(obj.events) + 1]]

\* PygameIO.present_choices, lines 120-126, clearing the choice state
present_choices_end(obj) ==
    [obj EXCEPT !._prompt = None, !._choices = None,
                !._choice_event = None, !._choice_response = None]

\* the worker thread runs script, a sequence of calls on the PygameIO, from
\* position pos; ref is the list or event it holds, returned what its
\* blocking call returned.  The UI thread makes calls one after another:
\* accepted are the responses it provided to a pending prompt, popped the
\* lines its pop_output calls returned, ref and out the locals of pop_output
NoThreads ==
    [ worker |-> [pc |-> "idle", script |-> << >>, pos |-> 1, ref |-> 0, returned |-> None],
      ui     |-> [pc |-> "idle", calls |-> 0, ref |-> 0, out |-> << >>,
                  accepted |-> << >>, popped |-> << >>, seen |-> None] ]

-----------------------------------------------------------------------------
(* character_creator.py *)

STARTING_POINTS_POOL == 50

ATTRIBUTE_COST_THRESHOLD == 7

ATTRIBUTE_COST_HIGH == 2

\* get_attribute_cost(current_value): the points one more level costs
get_attribute_cost(current_value) ==
    IF current_value < ATTRIBUTE_COST_THRESHOLD THEN 1
    ELSE IF current_value < 10 THEN ATTRIBUTE_COST_HIGH
    ELSE 0

SKILL_COST_LEVEL_1 == 4

\* AVAILABLE_TRAITS of traits.py: point_cost and conflicts of each trait
AVAILABLE_TRAITS ==
    [ Brave          |-> [point_cost |-> 4, conflicts |-> {"Cowardly"}],
      Optimist       |-> [point_cost |-> 2, conflicts |-> {"Pessimist"}],
      Strong         |-> [point_cost |-> 6, conflicts |-> {"Weak"}],
      Thrifty        |-> [point_cost |-> 3, conflicts |-> {"Glutton"}],
      Lucky          |-> [point_cost |-> 5, conflicts |-> {"Unlucky"}],
      Cowardly       |-> [point_cost |-> 0 - 4, conflicts |-> {"Brave"}],
      Pessimist      |-> [point_cost |-> 0 - 2, conflicts |-> {"Optimist"}],
      Weak           |-> [point_cost |-> 0 - 6, conflicts |-> {"Strong"}],
      Glutton        |-> [point_cost |-> 0 - 3, conflicts |-> {"Thrifty"}],
      Unlucky        |-> [point_cost |-> 0 - 5, conflicts |-> {"Lucky"}],
      Pacifist       |-> [point_cost |-> 0 - 5, conflicts |-> {"Aggressive"}],
      Claustrophobic |-> [point_cost |-> 0 - 3, conflicts |-> {}] ]

\* AVAILABLE_SKILLS of skills.py: attribute_prerequisites of each skill
AVAILABLE_SKILLS ==
    [n \in {"Mechanics", "First Aid", "Electronics", "Driving", "Small Arms",
            "Scouting", "Melee Weaponry"} |->
        IF n \in {"Mechanics", "First Aid", "Electronics"} THEN [INT |-> 4]
        ELSE IF n = "Driving" THEN [AGI |-> 3]
        ELSE IF n = "Small Arms" THEN [AGI |-> 4]
        ELSE IF n = "Scouting" THEN [PER |-> 4]
        ELSE [STR |-> 4]]

\* no character is being created
NoCreation == None

\* character_creation_menu, lines 114-118: the custom flow starts
NewCreation ==
    [ phase              |-> "menu",
      points_pool        |-> STARTING_POINTS_POOL,
      cheats             |-> 0,
      current_attributes |-> [attr \in AttributeNames |-> 1],
      selected_traits    |-> << >>,
      selected_skills    |-> << >> ]

\* lines 153-163: the answer "<attr_name> +1" in the attribute sub-menu
attribute_plus(c, attr_name) ==
    LET current_val == c.current_attributes[attr_name]
        cost == get_attribute_cost(current_val)
    IN  IF current_val < 10 /\ c.points_pool >= cost
        THEN [c EXCEPT !.current_attributes[attr_name] = @ + 1, !.points_pool = @ - cost]
        ELSE c

\* lines 164-171: the answer "<attr_name> -1" in the attribute sub-menu
attribute_minus(c, attr_name) ==
    LET current_val == c.current_attributes[attr_name]
        cost_returned == get_attribute_cost(current_val - 1)
    IN  IF current_val > 1
        THEN [c EXCEPT !.current_attributes[attr_name] = @ - 1,
                       !.points_pool = @ + cost_returned]
        ELSE c

\* trait_obj in selected_traits
is_selected(c, trait_name) ==
    \E i \in DOMAIN c.selected_traits : c.selected_traits[i] = trait_name

\* lines 197-201: a selected trait conflicts with the trait, either way
conflicts_exist(c, trait_name) ==
    \E i \in DOMAIN c.selected_traits :
        \/ trait_name \in AVAILABLE_TRAITS[c.selected_traits[i]].conflicts
        \/ c.selected_traits[i] \in AVAILABLE_TRAITS[trait_name].conflicts

\* the trait sub-menu adding a trait whatever is selected already
trait_toggle_NoConflictCheck(c, trait_name) ==
    LET point_cost == AVAILABLE_TRAITS[trait_name].point_cost
    IN  IF is_selected(c, trait_name)
        THEN [c EXCEPT !.selected_traits = SelectSeq(@, LAMBDA x : x # trait_name),
                       !.points_pool = @ + point_cost]
        ELSE IF c.points_pool >= point_cost
        THEN [c EXCEPT !.selected_traits = Append(@, trait_name),
                       !.points_pool = @ - point_cost]
        ELSE c

\* lines 212-228: the number of a trait is entered in the trait sub-menu
trait_toggle(c, trait_name) ==
    LET point_cost == AVAILABLE_TRAITS[trait_name].point_cost
    IN  IF is_selected(c, trait_name)
        THEN [c EXCEPT !.selected_traits = SelectSeq(@, LAMBDA x : x # trait_name),
                       !.points_pool = @ + point_cost]
        ELSE IF conflicts_exist(c, trait_name) THEN c
        ELSE IF c.points_pool >= point_cost
        THEN [c EXCEPT !.selected_traits = Append(@, trait_name),
                       !.points_pool = @ - point_cost]
        ELSE c

\* lines 244-250: current_attributes.get(attr, 0) >= req_val for every
\* attribute prerequisite of the skill
prereqs_met(c, skill_name) ==
    \A attr \in DOMAIN AVAILABLE_SKILLS[skill_name] :
        c.current_attributes[attr] >= AVAILABLE_SKILLS[skill_name][attr]

\* lines 263-277: the number of a skill is entered in the skill sub-menu
skill_toggle(c, skill_name) ==
    IF skill_name \in DOMAIN c.selected_skills
    THEN [c EXCEPT !.selected_skills =
                       [n \in DOMAIN c.selected_skills \ {skill_name} |-> c.selected_skills[n]],
                   !.points_pool = @ + SKILL_COST_LEVEL_1]
    ELSE IF ~prereqs_met(c, skill_name) THEN c
    ELSE IF c.points_pool >= SKILL_COST_LEVEL_1
    THEN [c EXCEPT !.selected_skills =
                       [n \in DOMAIN c.selected_skills \cup {skill_name} |->
                           IF n = skill_name THEN 1 ELSE c.selected_skills[n]],
                   !.points_pool = @ - SKILL_COST_LEVEL_1]
    ELSE c

\* lines 291-309: the survivor built from the attributes, with every
\* selected trait added and every selected skill learned
RECURSIVE AddTraits(_, _, _)
AddTraits(s, selected_traits, i) ==
    IF i > Len(selected_traits) THEN s
    ELSE AddTraits(add_trait(s, selected_traits[i]), selected_traits, i + 1)

final_survivor(c) ==
    [ AddTraits(Survivor(c.current_attributes, << >>), c.selected_traits, 1)
      EXCEPT !.skills = c.selected_skills ]

\* create_pregenerated_survivor(): Alex Chen
Pregenerated ==
    [ Survivor([STR |-> 5, AGI |-> 6, INT |-> 5, PER |-> 6, CHR |-> 4, CON |-> 5, SAN |-> 5],
               [n \in {"Small Arms", "First Aid", "Scouting"} |-> 1])
      EXCEPT !.name = "Alex Chen", !.traits = <<"Brave", "Strong">> ]

-----------------------------------------------------------------------------
(* map_nodes.py and Game.generate_map of game.py *)

\* the keys of AVAILABLE_NODES, in the order of the dictionary; every key is
\* the id of its node
AVAILABLE_NODES ==
    << "city_outskirts_01", "suburban_ruins_01", "highway_access_01",
       "industrial_zone_01", "downtown_perimeter_01", "downtown_center_01" >>

\* danger_level of the nodes of AVAILABLE_NODES
NodeDanger ==
    [ city_outskirts_01 |-> 2, suburban_ruins_01 |-> 3, highway_access_01 |-> 4,
      industrial_zone_01 |-> 5, downtown_perimeter_01 |-> 4, downtown_center_01 |-> 5 ]

\* generate_map, lines 84-93: the copy of a node, with no connection yet
NewNode(node_id) ==
    [ id |-> node_id, danger_level |-> NodeDanger[node_id],
      connected_nodes |-> << >>, is_visited |-> FALSE ]

\* the connection recorded on the previous node alone
Connect_OneWay(map, previous_node_id, new_node_id) ==
    [map EXCEPT ![previous_node_id].connected_nodes = Append(@, new_node_id)]

\* generate_map, lines 97-98: each of the two nodes records the other
Connect(map, previous_node_id, new_node_id) ==
    [map EXCEPT ![previous_node_id].connected_nodes = Append(@, new_node_id),
                ![new_node_id].connected_nodes = Append(@, previous_node_id)]

\* generate_map, lines 81-100: the loop over selected_node_ids from position i
RECURSIVE ChainNodes(_, _, _)
ChainNodes(map, selected_node_ids, i) ==
    IF i > Len(selected_node_ids) THEN map
    ELSE LET node_id == selected_node_ids[i]
             placed == [n \in DOMAIN map \cup {node_id} |->
                           IF n = node_id THEN NewNode(node_id) ELSE map[n]]
         IN  ChainNodes(IF i > 1 THEN Connect(placed, selected_node_ids[i - 1], node_id)
                        ELSE placed,
                        selected_node_ids, i + 1)

\* random.sample(list(AVAILABLE_NODES.keys()), num_nodes): num_nodes distinct
\* keys in any order
Samples(num_nodes) ==
    {s \in [1..num_nodes -> {AVAILABLE_NODES[i] : i \in DOMAIN AVAILABLE_NODES}] :
        \A i, j \in 1..num_nodes : i # j => s[i] # s[j]}

\* Game.generate_map(num_nodes) with sample the selection drawn: the map left
\* in self.game_map and the exception raised.  random.sample raises
\* ValueError for a negative num_nodes, after the map was emptied; lines
\* 102-106 append the second id to a first node without connection and then
\* read the undefined name second_node_ids
generate_map(num_nodes, sample) ==
    IF num_nodes < 0 THEN [game_map |-> << >>, raised |-> "ValueError"]
    ELSE LET selected_node_ids ==
                 IF num_nodes > Len(AVAILABLE_NODES) THEN AVAILABLE_NODES ELSE sample
             chained == ChainNodes(<< >>, selected_node_ids, 1)
         IN  IF Cardinality(DOMAIN chained) > 1
                /\ chained[selected_node_ids[1]].connected_nodes = << >>
             THEN [game_map |-> Connect_OneWay(chained, selected_node_ids[1],
                                               selected_node_ids[2]),
                   raised |-> "NameError"]
             ELSE [game_map |-> chained, raised |-> "none"]

-----------------------------------------------------------------------------
(* event_resolver.py *)

BASE_SUCCESS_CHANCE == 50

SKILL_BONUS_PER_LEVEL == 5

ATTRIBUTE_BONUS_PER_POINT == 2

CRITICAL_SUCCESS_THRESHOLD == 95

CRITICAL_FAILURE_THRESHOLD == 5

\* the keys of a sequence of <<key, value>> pairs (a dict in insertion order)
Keys(pairs) == {pairs[i][1] : i \in DOMAIN pairs}

\* sum of f[x] over the finite set S
RECURSIVE SumOver(_, _)
SumOver(S, f) ==
    IF S = {} THEN 0
    ELSE LET x == CHOOSE y \in S : TRUE IN f[x] + SumOver(S \ {x}, f)

\* one survivor's share without the skill bonus
SurvivorBonus_AttributesOnly(survivor, recommended) ==
    LET rec == DOMAIN recommended
        per == IF "Perception" \in rec \/ "Scouting" \in rec
               THEN survivor.attributes.PER * ATTRIBUTE_BONUS_PER_POINT ELSE 0
        arms == IF "Small Arms" \in rec \/ "Melee Weaponry" \in rec
                THEN ((survivor.attributes.AGI + survivor.attributes.STR)
                        * ATTRIBUTE_BONUS_PER_POINT) \div 2
                ELSE 0
        int == IF "Mechanics" \in rec \/ "Electronics" \in rec
               THEN survivor.attributes.INT * ATTRIBUTE_BONUS_PER_POINT ELSE 0
    IN  per + arms + int

\* one survivor's share of total_skill_bonus + total_attribute_bonus
\* (recommended is the dict the loop body reads: a function skill -> level)
SurvivorBonus(survivor, recommended) ==
    LET rec == DOMAIN recommended
        skill_bonus ==
            SumOver(rec \cap DOMAIN survivor.skills,
                    [n \in rec \cap DOMAIN survivor.skills |->
                        survivor.skills[n] * SKILL_BONUS_PER_LEVEL])
        per == IF "Perception" \in rec \/ "Scouting" \in rec
               THEN survivor.attributes.PER * ATTRIBUTE_BONUS_PER_POINT ELSE 0
        \* (AGI + STR) / 2 * ATTRIBUTE_BONUS_PER_POINT, exact in floats
        arms == IF "Small Arms" \in rec \/ "Melee Weaponry" \in rec
                THEN ((survivor.attributes.AGI + survivor.attributes.STR)
                        * ATTRIBUTE_BONUS_PER_POINT) \div 2
                ELSE 0
        int == IF "Mechanics" \in rec \/ "Electronics" \in rec
               THEN survivor.attributes.INT * ATTRIBUTE_BONUS_PER_POINT ELSE 0
    IN  skill_bonus + per + arms + int

\* the chance without the final max(0, min(100, ...))
calculate_action_success_chance_Unclamped(survs, action_obj, action_type, node_danger_modifier) ==
    LET recommended == IF action_type \in {"quest", "base_job"}
                       THEN action_obj.recommended_skills ELSE << >>
        bonus == SumOver(DOMAIN survs,
                         [k \in DOMAIN survs |-> SurvivorBonus(survs[k], recommended)])
    IN  BASE_SUCCESS_CHANCE + bonus - node_danger_modifier * 5

\* calculate_action_success_chance(survivors, action_obj, action_type, node_danger_modifier)
calculate_action_success_chance(survs, action_obj, action_type, node_danger_modifier) ==
    LET recommended == IF action_type \in {"quest", "base_job"}
                       THEN action_obj.recommended_skills ELSE << >>
        bonus == SumOver(DOMAIN survs,
                         [k \in DOMAIN survs |-> SurvivorBonus(survs[k], recommended)])
        danger_penalty == node_danger_modifier * 5
        final_chance == BASE_SUCCESS_CHANCE + bonus - danger_penalty
    IN  Clamp(final_chance)

\* resolve_action: is_successful = roll <= success_chance
is_successful(roll, success_chance) == roll <= success_chance

\* a critical success on any roll at or above the threshold
is_critical_success_AnyHighRoll(roll, success_chance) ==
    roll >= CRITICAL_SUCCESS_THRESHOLD

\* resolve_action: is_critical_success
is_critical_success(roll, success_chance) ==
    is_successful(roll, success_chance) /\ roll >= CRITICAL_SUCCESS_THRESHOLD

\* a critical failure on any failed roll in the lowest tenth of the die
is_critical_failure_LowestTenth(roll, success_chance) ==
    ~is_successful(roll, success_chance) /\ roll <= 2 * CRITICAL_FAILURE_THRESHOLD

\* resolve_action: is_critical_failure
is_critical_failure(roll, success_chance) ==
    ~is_successful(roll, success_chance) /\ roll <= CRITICAL_FAILURE_THRESHOLD

Tiers == {"critical_success", "success", "critical_failure", "failure"}

\* resolve_action: the branches of the if / elif chain that announces the
\* tier, as the set of tiers whose branch runs
resolve_action_tiers(roll, success_chance) ==
    {t \in Tiers :
        \/ t = "critical_success" /\ is_critical_success(roll, success_chance)
        \/ t = "success" /\ ~is_critical_success(roll, success_chance)
                         /\ is_successful(roll, success_chance)
        \/ t = "critical_failure" /\ ~is_critical_success(roll, success_chance)
                                  /\ ~is_successful(roll, success_chance)
                                  /\ is_critical_failure(roll, success_chance)
        \/ t = "failure" /\ ~is_critical_success(roll, success_chance)
                         /\ ~is_successful(roll, success_chance)
                         /\ ~is_critical_failure(roll, success_chance)}

\* res.endswith("_crafted"), for the reward keys of the shipped content
EndsWithCrafted(res) == res \in {"Ammunition_crafted"}

\* res.replace("_crafted", "")
WithoutCrafted(res) == IF res = "Ammunition_crafted" THEN "Ammunition" ELSE res

\* resolve_action, success branch: the ledger after the rewards loop
\* (rewards is the dict in insertion order: a sequence of <<res, qty>>)
RECURSIVE ApplyRewards(_, _, _, _)
ApplyRewards(ledger, rewards, i, critical) ==
    IF i > Len(rewards) THEN ledger
    ELSE LET res == rewards[i][1]
             qty == Times(res, rewards[i][2], IF critical THEN 2 ELSE 1)
         IN  IF res = "Experience"
             THEN ApplyRewards(ledger, rewards, i + 1, critical)
             ELSE IF EndsWithCrafted(res)
                  THEN ApplyRewards(add_resource(ledger, WithoutCrafted(res), qty),
                                    rewards, i + 1, critical)
                  ELSE ApplyRewards(add_resource(ledger, res, qty),
                                    rewards, i + 1, critical)

\* resolve_action, failure branch: the survivors after the consequences loop.
\* consequences is the dict in insertion order, a sequence of
\* <<effect, value>>; the value of Injury_chance is carried doubled.
\* injury_rolls[k] is the roll chance_check draws for survivor k.
\* raised: chance_check raised ValueError, which leaves resolve_action.
RECURSIVE ApplyConsequences(_, _, _, _, _)
ApplyConsequences(survs, consequences, i, critical, injury_rolls) ==
    IF i > Len(consequences) THEN [survivors |-> survs, raised |-> FALSE]
    ELSE LET effect == consequences[i][1]
             value  == consequences[i][2]
             mult   == IF critical THEN 2 ELSE 1
         IN  IF effect = "HP_loss_per_survivor"
             THEN ApplyConsequences(
                      [k \in DOMAIN survs |-> Survivor_take_damage(survs[k], value * mult)],
                      consequences, i + 1, critical, injury_rolls)
             ELSE IF effect = "Stress_gain_per_survivor"
             THEN ApplyConsequences(
                      [k \in DOMAIN survs |-> gain_stress(survs[k], 2 * value * mult)],
                      consequences, i + 1, critical, injury_rolls)
             ELSE IF effect = "Injury_chance" /\ value > 0
             THEN IF Len(survs) > 0 /\ chance_check_raises(value * mult)
                  THEN [survivors |-> survs, raised |-> TRUE]
                  ELSE ApplyConsequences(
                      [k \in DOMAIN survs |->
                          IF chance_check(value * mult, injury_rolls[k])
                          THEN [survs[k] EXCEPT !.is_injured = TRUE]
                          ELSE survs[k]],
                      consequences, i + 1, critical, injury_rolls)
             ELSE ApplyConsequences(survs, consequences, i + 1, critical, injury_rolls)

\* the failure of resolve_action without its flat stress gain
failure_stress_Skipped(s, critical) == s

\* resolve_action, lines 130-132: s.gain_stress(15 * (2 if is_critical_failure else 1))
failure_stress(s, critical) == gain_stress(s, 2 * 15 * (IF critical THEN 2 ELSE 1))

\* resolve_action(survivors, action_obj, action_type, game_instance, node_danger)
\* given the roll_d100() it draws and the rolls of its injury checks:
\* the survivors and the ledger afterwards and the value returned
resolve_action(survs, action_obj, action_type, ledger, danger, roll, injury_rolls) ==
    LET success_chance ==
            calculate_action_success_chance(survs, action_obj, action_type, danger)
        succ  == is_successful(roll, success_chance)
        critS == is_critical_success(roll, success_chance)
        critF == is_critical_failure(roll, success_chance)
    IN  IF succ
        THEN [ survivors |-> [k \in DOMAIN survs |->
                                 reduce_stress(survs[k], 10 * (IF critS THEN 2 ELSE 1))],
               global_resources |-> ApplyRewards(ledger, action_obj.rewards, 1, critS),
               raised |-> FALSE,
               ret |-> <<succ, critS>> ]
        ELSE LET after == ApplyConsequences(survs, action_obj.fail_consequences, 1,
                                            critF, injury_rolls)
             IN  IF after.raised
                 THEN [ survivors |-> after.survivors, global_resources |-> ledger,
                        raised |-> TRUE, ret |-> <<FALSE, FALSE>> ]
                 ELSE [ survivors |-> [k \in DOMAIN survs |->
                                          failure_stress(after.survivors[k], critF)],
                        global_resources |-> ledger,
                        raised |-> FALSE,
                        ret |-> <<succ, critS>> ]

\* the draws that call of resolve_action takes from the generator: the
\* roll_d100() of line 74, then on a failure one roll per participant for an
\* Injury_chance above 0 whose chance_check does not raise
resolve_action_draws(survs, action_obj, action_type, danger, roll, injury_rolls) ==
    LET success_chance ==
            calculate_action_success_chance(survs, action_obj, action_type, danger)
        critF == is_critical_failure(roll, success_chance)
        consequences == action_obj.fail_consequences
        checked == \E i \in DOMAIN consequences :
                       /\ consequences[i][1] = "Injury_chance"
                       /\ consequences[i][2] > 0
                       /\ ~chance_check_raises(consequences[i][2] * (IF critF THEN 2 ELSE 1))
    IN  <<DrawD100(roll)>> \o
        (IF ~is_successful(roll, success_chance) /\ checked
         THEN [k \in DOMAIN survs |-> DrawD100(injury_rolls[k])]
         ELSE << >>)

-----------------------------------------------------------------------------
(* quests.py, base_jobs.py: the shipped action descriptors used here *)

\* AVAILABLE_QUESTS["ScavengeFood"]
ScavengeFood ==
    [ name |-> "ScavengeFood",
      recommended_skills |-> [n \in {"Perception", "Scouting"} |-> 1],
      rewards |-> << <<"Food", 40>>, <<"Scrap", 10>>, <<"Experience", 5>> >>,
      fail_consequences |-> << <<"HP_loss_per_survivor", 5>>,
                               <<"Stress_gain_per_survivor", 10>> >> ]

\* AVAILABLE_QUESTS["ClearInfestation"] (Injury_chance 0.5, carried doubled)
ClearInfestation ==
    [ name |-> "ClearInfestation",
      recommended_skills |-> [n \in {"Small Arms", "Melee Weaponry", "Tactics"} |-> 1],
      rewards |-> << <<"Ammunition", 20>>, <<"Scrap", 30>>, <<"Experience", 15>> >>,
      fail_consequences |-> << <<"HP_loss_per_survivor", 20>>,
                               <<"Stress_gain_per_survivor", 30>>,
                               <<"Injury_chance", 1>> >> ]

\* AVAILABLE_BASE_JOBS["CraftAmmunition"]
CraftAmmunition ==
    [ name |-> "CraftAmmunition",
      recommended_skills |-> [n \in {"Mechanics"} |-> 1],
      rewards |-> << <<"Ammunition_crafted", 10>>, <<"Experience", 7>> >>,
      fail_consequences |-> << <<"Scrap_loss", 10>>,
                               <<"Stress_gain_per_survivor", 5>> >> ]

\* AVAILABLE_BASE_JOBS["RestAndRecover"]
RestAndRecover ==
    [ name |-> "RestAndRecover",
      recommended_skills |-> << >>,
      rewards |-> << <<"HP_recovery_flat", 10>>, <<"Stress_reduction_flat", 15>>,
                     <<"Experience", 1>> >>,
      fail_consequences |-> << >> ]

\* AVAILABLE_QUESTS["FindMissingTrader"]
FindMissingTrader ==
    [ name |-> "FindMissingTrader",
      recommended_skills |-> [n \in {"Scouting", "Charisma"} |-> 1],
      rewards |-> << <<"Scrap", 50>>, <<"RandomItem", 1>>, <<"Experience", 10>> >>,
      fail_consequences |-> << <<"Stress_gain_per_survivor", 20>> >> ]

\* AVAILABLE_QUESTS["RepairLocalGenerator"]
RepairLocalGenerator ==
    [ name |-> "RepairLocalGenerator",
      recommended_skills |-> [n \in {"Mechanics", "Electronics"} |-> 1],
      rewards |-> << <<"ElectronicParts", 10>>, <<"Scrap", 20>>, <<"Experience", 10>>,
                     <<"UnlocksBaseUpgrade", [str |-> "Generator", repeated |-> 1]>> >>,
      fail_consequences |-> << <<"HP_loss_per_survivor", 5>>,
                               <<"Stress_gain_per_survivor", 10>> >> ]

\* AVAILABLE_BASE_JOBS["ScrapSalvage"]
ScrapSalvage ==
    [ name |-> "ScrapSalvage",
      recommended_skills |-> [n \in {"Perception", "Strength"} |-> 1],
      rewards |-> << <<"Scrap", 20>>, <<"Experience", 3>> >>,
      fail_consequences |-> << <<"Stress_gain_per_survivor", 5>> >> ]

\* AVAILABLE_BASE_JOBS["VehicleMaintenance"]
VehicleMaintenance ==
    [ name |-> "VehicleMaintenance",
      recommended_skills |-> [n \in {"Mechanics", "Intellect"} |-> 1],
      rewards |-> << <<"Vehicle_HP_repair", 10>>, <<"Experience", 5>> >>,
      fail_consequences |-> << <<"Scrap_loss", 5>> >> ]

\* AVAILABLE_BASE_JOBS["GuardDuty"] (Base_Defense_Bonus 0.10 and
\* Base_Intrusion_chance 0.05, in hundredths)
GuardDuty ==
    [ name |-> "GuardDuty",
      recommended_skills |-> [n \in {"Small Arms", "Perception"} |-> 1],
      rewards |-> << <<"Base_Defense_Bonus", [float100 |-> 10]>>, <<"Experience", 5>> >>,
      fail_consequences |-> << <<"Stress_gain_per_survivor", 10>>,
                               <<"Base_Intrusion_chance", [float100 |-> 5]>> >> ]

\* Quest(..., fail_consequences={"Stress_gain_per_survivor": 10,
\* "Injury_chance": 60}): a descriptor with an injury chance of 60 percent
\* (carried doubled), built as quests.py builds the shipped ones
Raid ==
    [ name |-> "Raid",
      recommended_skills |-> [n \in {"Small Arms"} |-> 1],
      rewards |-> << <<"Food", 5>>, <<"Experience", 10>> >>,
      fail_consequences |-> << <<"Stress_gain_per_survivor", 10>>,
                               <<"Injury_chance", 2 * 60>> >> ]

-----------------------------------------------------------------------------
(* decision_engine.py *)

\* one survivor's bonus in calculate_choice_specific_chance
\* (prerequisites is the dict: a function whose domain may hold "skill"
\* and "attribute", each a function name -> threshold)
ChoiceBonus(survivor, prerequisites) ==
    LET skill == IF "skill" \in DOMAIN prerequisites
                 THEN prerequisites.skill ELSE << >>
        met   == {n \in DOMAIN skill :
                     n \in DOMAIN survivor.skills /\ survivor.skills[n] >= skill[n]}
        attribute == IF "attribute" \in DOMAIN prerequisites
                     THEN prerequisites.attribute ELSE << >>
        \* survivor.attributes.get(attr_name, 0) >= req_val
        has   == {a \in DOMAIN attribute :
                     IF a \in DOMAIN survivor.attributes
                     THEN survivor.attributes[a] >= attribute[a]
                     ELSE 0 >= attribute[a]}
    IN  SumOver(met, [n \in met |-> (survivor.skills[n] - skill[n] + 1) * 5])
        + SumOver(has, [a \in has |-> (survivor.attributes[a] - attribute[a] + 1) * 2])

\* calculate_choice_specific_chance(choice, survivors, game_instance)
calculate_choice_specific_chance(choice, survs) ==
    Clamp(choice.base_success_chance
          + SumOver(DOMAIN survs,
                    [k \in DOMAIN survs |-> ChoiceBonus(survs[k], choice.prerequisites)]))

\* make_decision: is_successful, is_critical_success, is_critical_failure
decision_is_successful(roll, final_chance) == roll <= final_chance

decision_is_critical_success(roll, final_chance) ==
    decision_is_successful(roll, final_chance) /\ roll >= CRITICAL_SUCCESS_THRESHOLD

decision_is_critical_failure(roll, final_chance) ==
    ~decision_is_successful(roll, final_chance) /\ roll <= CRITICAL_FAILURE_THRESHOLD

\* make_decision: outcome_type, as the set of tiers whose branch of the
\* if / elif chain assigns it
outcome_types(roll, final_chance) ==
    {t \in Tiers :
        \/ t = "critical_success" /\ decision_is_critical_success(roll, final_chance)
        \/ t = "success" /\ ~decision_is_critical_success(roll, final_chance)
                         /\ decision_is_successful(roll, final_chance)
        \/ t = "critical_failure" /\ ~decision_is_critical_success(roll, final_chance)
                                  /\ ~decision_is_successful(roll, final_chance)
                                  /\ decision_is_critical_failure(roll, final_chance)
        \/ t = "failure" /\ ~decision_is_critical_success(roll, final_chance)
                         /\ ~decision_is_successful(roll, final_chance)
                         /\ ~decision_is_critical_failure(roll, final_chance)}

\* Choice(text, description, base_success_chance, effects_on_success,
\* effects_on_failure, prerequisites)
ChoiceWithEffects(base_success_chance, prerequisites, on_success, on_failure) ==
    [ base_success_chance |-> base_success_chance,
      prerequisites       |-> prerequisites,
      effects_on_success  |-> on_success,
      effects_on_failure  |-> on_failure ]

\* survivor.attributes.get(name, 0)
AttributeValue(s, name) == IF name \in DOMAIN s.attributes THEN s.attributes[name] ELSE 0

\* make_decision, lines 82-89: has_required_skill
has_required_skill(choice_obj, affected_survivors) ==
    \E k \in DOMAIN affected_survivors, n \in DOMAIN choice_obj.prerequisites.skill :
        SkillLevel(affected_survivors[k], n) >= choice_obj.prerequisites.skill[n]

\* make_decision, lines 94-101: has_required_attribute
has_required_attribute(choice_obj, affected_survivors) ==
    \E k \in DOMAIN affected_survivors, a \in DOMAIN choice_obj.prerequisites.attribute :
        AttributeValue(affected_survivors[k], a) >= choice_obj.prerequisites.attribute[a]

\* can_choose when one participant has to meet a threshold of every group
can_choose_BySameSurvivor(choice_obj, affected_survivors) ==
    LET prerequisites == choice_obj.prerequisites
    IN  \/ DOMAIN prerequisites \cap {"skill", "attribute"} = {}
        \/ \E k \in DOMAIN affected_survivors :
               /\ "skill" \in DOMAIN prerequisites =>
                      has_required_skill(choice_obj, <<affected_survivors[k]>>)
               /\ "attribute" \in DOMAIN prerequisites =>
                      has_required_attribute(choice_obj, <<affected_survivors[k]>>)

\* make_decision, lines 80-104: can_choose after both prerequisite checks
can_choose(choice_obj, affected_survivors) ==
    /\ "skill" \in DOMAIN choice_obj.prerequisites =>
           has_required_skill(choice_obj, affected_survivors)
    /\ "attribute" \in DOMAIN choice_obj.prerequisites =>
           has_required_attribute(choice_obj, affected_survivors)

\* make_decision, lines 78-112: the numbers i + 1 of available_choices, which
\* are the keys of choice_map
available_choices(choices, affected_survivors) ==
    {i \in DOMAIN choices : can_choose(choices[i], affected_survivors)}

\* calculate_choice_specific_chance raises KeyError: line 56 reads
\* survivor.attributes[attr_name] after attributes.get(attr_name, 0) passed
\* the threshold, for a name the survivor has no attribute of
choice_chance_raises(choice, survs) ==
    /\ "attribute" \in DOMAIN choice.prerequisites
    /\ \E k \in DOMAIN survs, a \in DOMAIN choice.prerequisites.attribute :
           /\ a \notin DOMAIN survs[k].attributes
           /\ 0 >= choice.prerequisites.attribute[a]

\* the forced outcome as a success
forced_outcome_Success == "success"

\* make_decision, line 117: the tier returned when no choice is available
forced_outcome == "failure"

\* make_decision, line 117: the bundle returned when no choice is available
NoViableChoices == [info |-> "No viable choices, forced to wait/fail."]

\* the bundles of the chosen choice, the other way round
effects_to_apply_Swapped(chosen_choice_obj, outcome_type) ==
    IF outcome_type \in {"critical_success", "success"}
    THEN chosen_choice_obj.effects_on_failure
    ELSE chosen_choice_obj.effects_on_success

\* make_decision, lines 142-159: effects_to_apply
effects_to_apply(chosen_choice_obj, outcome_type) ==
    IF outcome_type \in {"critical_success", "success"}
    THEN chosen_choice_obj.effects_on_success
    ELSE chosen_choice_obj.effects_on_failure

\* decision while make_decision has not been called
NoDecision ==
    [choices |-> << >>, who |-> << >>, available |-> {}, inputs |-> 0, rolls |-> 0,
     chosen |-> 0, roll |-> 0]

-----------------------------------------------------------------------------
(* combat_engine.py *)

SURVIVOR_BASE_HIT_CHANCE == 70

ZOMBIE_BASE_HIT_CHANCE == 50

SKILL_HIT_BONUS_PER_LEVEL == 5

ATTRIBUTE_HIT_BONUS_PER_POINT == 2

ZOMBIE_HP_PER_DANGER_LEVEL == 10

\* the literal of `combat_round < 100`
MAX_ROUNDS == 100

\* get_combat_stats(entity)["weapon_damage"]
weapon_damage(attacker) == 10 + attacker.attributes.STR * 2

\* calculate_survivor_hit_chance(attacker, target, environment_mods), doubled
calculate_survivor_hit_chance(attacker, target, env) ==
    LET skilled ==
            IF SkillLevel(attacker, "Small Arms") > 0
            THEN 2 * (attacker.skills["Small Arms"] * SKILL_HIT_BONUS_PER_LEVEL
                      + attacker.attributes.AGI * ATTRIBUTE_HIT_BONUS_PER_POINT)
            ELSE IF SkillLevel(attacker, "Melee Weaponry") > 0
            THEN 2 * (attacker.skills["Melee Weaponry"] * SKILL_HIT_BONUS_PER_LEVEL
                      + attacker.attributes.STR * ATTRIBUTE_HIT_BONUS_PER_POINT)
            \* (AGI + STR) / 2 * (ATTRIBUTE_HIT_BONUS_PER_POINT / 2)
            ELSE (attacker.attributes.AGI + attacker.attributes.STR)
                     * (ATTRIBUTE_HIT_BONUS_PER_POINT \div 2)
        chance2 == 2 * SURVIVOR_BASE_HIT_CHANCE + skilled
                   - target.defense                    \* defense * 0.5
                   - (IF env.Fog THEN 2 * 15 ELSE 0)
    IN  Clamp2(chance2)

\* calculate_zombie_hit_chance(attacker, target, environment_mods)
calculate_zombie_hit_chance(attacker, target, env) ==
    LET chance == ZOMBIE_BASE_HIT_CHANCE - target.attributes.AGI * 2
                  - (IF env.Fog /\ SkillLevel(target, "Stealth") > 0 THEN 20 ELSE 0)
    IN  Clamp(chance)

\* the permutations of the positions of list
Orderings(list) ==
    {q \in [DOMAIN list -> DOMAIN list] : \A i, j \in DOMAIN list : q[i] = q[j] => i = j}

\* list with list[p[i]] at position i
Permuted(list, p) == [i \in DOMAIN list |-> list[p[i]]]

\* random.shuffle(list): the orders it can leave the list in
Shuffles(list) == {Permuted(list, p) : p \in Orderings(list)}

\* list.remove(x) leaving the list as it was
Remove_Nothing(list, x) == list

\* list.remove(x): the list without its first x
Remove(list, x) ==
    LET at == CHOOSE i \in DOMAIN list :
                  list[i] = x /\ \A j \in 1..(i - 1) : list[j] # x
    IN  [i \in 1..(Len(list) - 1) |-> IF i < at THEN list[i] ELSE list[i + 1]]

\* [i for i in roster if roster[i].is_alive], as indices in roster order
RECURSIVE Living(_, _)
Living(roster, i) ==
    IF i > Len(roster) THEN << >>
    ELSE IF roster[i].is_alive THEN <<i>> \o Living(roster, i + 1)
         ELSE Living(roster, i + 1)

\* resolve_combat: zombie HP scaled by node danger, for the active zombies
ScaleZombies(roster, danger) ==
    [k \in DOMAIN roster |->
        IF roster[k].is_alive /\ danger > 1
        THEN [roster[k] EXCEPT
                 !.base_hp    = @ + (danger - 1) * ZOMBIE_HP_PER_DANGER_LEVEL,
                 !.current_hp = @ + (danger - 1) * ZOMBIE_HP_PER_DANGER_LEVEL]
        ELSE roster[k]]

\* the loop test with the cap one round short
LoopCondition_OffByOne(act_s, act_z, round) ==
    act_s # << >> /\ act_z # << >> /\ round < MAX_ROUNDS - 1

\* the condition of the while loop
LoopCondition(act_s, act_z, round) ==
    act_s # << >> /\ act_z # << >> /\ round < MAX_ROUNDS

\* resolve_combat: outcome_summary
Summary(act_s, act_z, round) ==
    [ survivors_remaining |-> Len(act_s),
      zombies_remaining   |-> Len(act_z),
      total_rounds        |-> round,
      victory   |-> Len(act_s) > 0 /\ Len(act_z) = 0,
      defeat    |-> Len(act_s) = 0 /\ Len(act_z) > 0,
      stalemate |-> Len(act_s) > 0 /\ Len(act_z) > 0 /\ round >= MAX_ROUNDS ]

\* the value of outcome_summary, hits and the loop variables outside a combat
NoSummary == [total_rounds |-> 0, victory |-> FALSE, defeat |-> FALSE,
              stalemate |-> FALSE, survivors_remaining |-> 0, zombies_remaining |-> 0]

-----------------------------------------------------------------------------
(* Bounds of the model *)

\* top-level calls explored from the initial state
MaxCalls == 2

\* the rolls explored where only the comparisons of the roll matter
\* (<= chance, >= 95, <= 5, <= 10): both ends of the die and the thresholds
Rolls == {1, 5, 6, 50, 95, 100}

\* the rolls explored by the combat steps: chance_check is monotone in the
\* roll, so the lowest and the highest roll decide whether a check can
\* succeed and whether it can fail
HitRolls == {1, 100}

\* amounts the callers of this repository pass (all non-negative)
Amounts == {0, 20, 100}

\* any amount, negative ones included
AnyAmounts == Amounts \cup {-10}

-----------------------------------------------------------------------------
(* The control thread: calls made while no resolver is running *)

Attrs(str, agi, int, per, chr, con, san) ==
    [STR |-> str, AGI |-> agi, INT |-> int, PER |-> per, CHR |-> chr,
     CON |-> con, SAN |-> san]

Idle == pc = "idle" /\ calls < MaxCalls

\* the value of last after the call of op has returned
Returned(op) == [op |-> op, state |-> "returned"]

\* survivors[k].take_damage(amount)
TakeDamageCall(k, amount) ==
    /\ Idle
    /\ survivors' = [survivors EXCEPT ![k] = Survivor_take_damage(@, amount)]
    /\ last' = Returned("take_damage")
    /\ ret' = None
    /\ calls' = calls + 1
    /\ UNCHANGED <<hostVars, decision, rng, saved, zombies, global_resources, pc, combatVars>>

\* survivors[k].heal(amount)
HealCall(k, amount) ==
    /\ Idle
    /\ survivors' = [survivors EXCEPT ![k] = heal(@, amount)]
    /\ last' = Returned("heal")
    /\ ret' = None
    /\ calls' = calls + 1
    /\ UNCHANGED <<hostVars, decision, rng, saved, zombies, global_resources, pc, combatVars>>

\* survivors[k].gain_stress(amount)
GainStressCall(k, amount) ==
    /\ Idle
    /\ survivors' = [survivors EXCEPT ![k] = gain_stress(@, 2 * amount)]
    /\ last' = Returned("gain_stress")
    /\ ret' = None
    /\ calls' = calls + 1
    /\ UNCHANGED <<hostVars, decision, rng, saved, zombies, global_resources, pc, combatVars>>

\* survivors[k].reduce_stress(amount)
ReduceStressCall(k, amount) ==
    /\ Idle
    /\ survivors' = [survivors EXCEPT ![k] = reduce_stress(@, amount)]
    /\ last' = Returned("reduce_stress")
    /\ ret' = None
    /\ calls' = calls + 1
    /\ UNCHANGED <<hostVars, decision, rng, saved, zombies, global_resources, pc, combatVars>>

\* zombies[k].take_damage(amount)
ZombieTakeDamageCall(k, amount) ==
    /\ Idle
    /\ zombies' = [zombies EXCEPT ![k] = Zombie_take_damage(@, amount)]
    /\ last' = Returned("zombie_take_damage")
    /\ ret' = None
    /\ calls' = calls + 1
    /\ UNCHANGED <<hostVars, decision, rng, saved, survivors, global_resources, pc, combatVars>>

\* the participant lists a caller can pass: any non-empty run of the roster
Participants == {<<k>> : k \in DOMAIN survivors} \cup {[k \in DOMAIN survivors |-> k]}

\* the action_type the callers in game.py pass with each descriptor
ActionType(action_obj) ==
    IF action_obj.name \in {"CraftAmmunition", "RestAndRecover", "ScrapSalvage",
                             "VehicleMaintenance", "GuardDuty"}
    THEN "base_job" ELSE "quest"

\* resolve_action(survivors, action_obj, action_type, game, node_danger)
ResolveActionCall(who, action_obj, danger, roll, injury_rolls) ==
    /\ Idle
    /\ LET r == resolve_action([i \in DOMAIN who |-> survivors[who[i]]], action_obj,
                               ActionType(action_obj), global_resources, danger,
                               roll, injury_rolls)
       IN  /\ survivors' = [k \in DOMAIN survivors |->
                               IF \E i \in DOMAIN who : who[i] = k
                               THEN r.survivors[CHOOSE i \in DOMAIN who : who[i] = k]
                               ELSE survivors[k]]
           /\ global_resources' = r.global_resources
           /\ ret' = [raised |-> r.raised, value |-> r.ret]
    /\ Draw(resolve_action_draws([i \in DOMAIN who |-> survivors[who[i]]], action_obj,
                                 ActionType(action_obj), danger, roll, injury_rolls))
    /\ last' = Returned("resolve_action")
    /\ calls' = calls + 1
    /\ UNCHANGED <<hostVars, decision, saved, zombies, pc, combatVars>>

-----------------------------------------------------------------------------
(* combat_engine.py: resolve_combat, one action per step of its control flow *)

\* the least number of survivor hits that destroys every living zombie when
\* no hit is critical: each hit deals at least the least weapon damage of
\* the living survivors (0 when no survivor lives)
HitsNeeded(survs, zombs) ==
    LET alive_s == {k \in DOMAIN survs : survs[k].is_alive}
        alive_z == {k \in DOMAIN zombs : zombs[k].is_alive}
        least   == CHOOSE d \in {weapon_damage(survs[k]) : k \in alive_s} :
                       \A k \in alive_s : d <= weapon_damage(survs[k])
    IN  IF alive_s = {} THEN 0
        ELSE SumOver(alive_z, [k \in alive_z |-> Ceil(zombs[k].current_hp, least)])

\* lines 96-115: the call, the rosters of the living, danger scaling.
\* hits is the history of this combat: all_survivor_hits is TRUE while no
\* survivor attack has missed, no_zombie_hits while no zombie attack has
\* hit, hits_needed is HitsNeeded of the rosters the loop starts with.
CombatBegin(env, danger) ==
    /\ Idle
    /\ environment_mods' = env
    /\ node_danger' = danger
    /\ active_survivors' = Living(survivors, 1)
    /\ active_zombies' = Living(zombies, 1)
    /\ zombies' = ScaleZombies(zombies, danger)
    /\ combat_round' = 0
    /\ idx' = 0
    /\ hits' = [all_survivor_hits |-> TRUE, no_zombie_hits |-> TRUE,
                hits_needed |-> HitsNeeded(survivors, ScaleZombies(zombies, danger))]
    /\ outcome_summary' = NoSummary
    /\ pc' = "loop"
    /\ calls' = calls + 1
    /\ last' = [op |-> "resolve_combat", state |-> "running"]
    /\ ret' = None
    /\ UNCHANGED <<hostVars, decision, rng, saved, survivors, global_resources>>

\* the round start without the increment of the round counter
RoundStart_NoIncrement ==
    /\ pc = "loop"
    /\ LoopCondition(active_survivors, active_zombies, combat_round)
    /\ \E p \in Orderings(active_survivors) :     \* random.shuffle
           /\ active_survivors' = Permuted(active_survivors, p)
           /\ Draw(<<DrawShuffle(active_survivors, p)>>)
    /\ idx' = 1
    /\ pc' = "survivors"
    /\ UNCHANGED <<hostVars, decision, saved, survivors, zombies, global_resources, environment_mods, node_danger,
                   active_zombies, combat_round, outcome_summary, hits, calls, last, ret>>

\* lines 116-121: the loop test passes; the round starts, survivors shuffled
RoundStart ==
    /\ pc = "loop"
    /\ LoopCondition(active_survivors, active_zombies, combat_round)
    /\ combat_round' = combat_round + 1
    /\ \E p \in Orderings(active_survivors) :     \* random.shuffle
           /\ active_survivors' = Permuted(active_survivors, p)
           /\ Draw(<<DrawShuffle(active_survivors, p)>>)
    /\ idx' = 1
    /\ pc' = "survivors"
    /\ UNCHANGED <<hostVars, decision, saved, survivors, zombies, global_resources, environment_mods, node_danger,
                   active_zombies, outcome_summary, hits, calls, last, ret>>

\* line 116: the loop test fails
LoopExit ==
    /\ pc = "loop"
    /\ ~LoopCondition(active_survivors, active_zombies, combat_round)
    /\ pc' = "summary"
    /\ UNCHANGED <<hostVars, decision, rng, saved, survivors, zombies, global_resources, environment_mods, node_danger,
                   active_survivors, active_zombies, combat_round, idx,
                   outcome_summary, hits, calls, last, ret>>

\* lines 122-146: one iteration of the survivors' for loop
SurvivorAttack(hit_roll, crit_roll) ==
    /\ pc = "survivors"
    /\ idx <= Len(active_survivors)
    /\ idx' = idx + 1
    /\ LET attacker == survivors[active_survivors[idx]]
       IN  IF ~attacker.is_alive \/ active_zombies = << >>
           THEN UNCHANGED <<hostVars, zombies, active_zombies, hits, rng>>
           ELSE \E target \in DOMAIN active_zombies :    \* random.choice
                   LET z == active_zombies[target]
                       hit_chance2 == calculate_survivor_hit_chance(
                                          attacker, zombies[z], environment_mods)
                   IN  IF chance_check(hit_chance2, hit_roll)
                       THEN LET damage_dealt ==
                                    weapon_damage(attacker)
                                        * (IF chance_check(2 * 10, crit_roll) THEN 2 ELSE 1)
                                struck == Zombie_take_damage(zombies[z], damage_dealt)
                            IN  /\ zombies' = [zombies EXCEPT ![z] = struck]
                                /\ active_zombies' = IF ~struck.is_alive
                                                     THEN Remove(active_zombies, z)
                                                     ELSE active_zombies
                                /\ UNCHANGED hits
                                /\ Draw(<<DrawChoice(active_zombies, target),
                                          DrawD100(hit_roll), DrawD100(crit_roll)>>)
                       ELSE /\ hits' = [hits EXCEPT !.all_survivor_hits = FALSE]
                            /\ UNCHANGED <<hostVars, zombies, active_zombies>>
                            /\ Draw(<<DrawChoice(active_zombies, target),
                                      DrawD100(hit_roll)>>)
    /\ UNCHANGED <<hostVars, decision, saved, survivors, global_resources, pc, environment_mods, node_danger,
                   active_survivors, combat_round, outcome_summary, calls, last, ret>>

\* lines 148-152: after the survivors' loop: break, or shuffle the zombies
SurvivorPhaseEnd ==
    /\ pc = "survivors"
    /\ idx > Len(active_survivors)
    /\ IF active_zombies = << >>
       THEN pc' = "summary" /\ UNCHANGED <<hostVars, active_zombies, idx, rng>>
       ELSE /\ pc' = "zombies"
            /\ \E p \in Orderings(active_zombies) :   \* random.shuffle
                   /\ active_zombies' = Permuted(active_zombies, p)
                   /\ Draw(<<DrawShuffle(active_zombies, p)>>)
            /\ idx' = 1
    /\ UNCHANGED <<hostVars, decision, saved, survivors, zombies, global_resources, environment_mods, node_danger,
                   active_survivors, combat_round, outcome_summary, hits, calls,
                   last, ret>>

\* lines 153-178: one iteration of the zombies' for loop
ZombieAttack(hit_roll, crit_roll) ==
    /\ pc = "zombies"
    /\ idx <= Len(active_zombies)
    /\ idx' = idx + 1
    /\ LET attacker_zombie == zombies[active_zombies[idx]]
       IN  IF ~attacker_zombie.is_alive \/ active_survivors = << >>
           THEN UNCHANGED <<hostVars, survivors, active_survivors, hits, rng>>
           ELSE \E target \in DOMAIN active_survivors :  \* random.choice
                   LET t == active_survivors[target]
                       hit_chance == calculate_zombie_hit_chance(
                                         attacker_zombie, survivors[t], environment_mods)
                   IN  IF chance_check(2 * hit_chance, hit_roll)
                       THEN LET damage_dealt ==
                                    attacker_zombie.damage
                                        * (IF chance_check(2 * 5, crit_roll) THEN 2 ELSE 1)
                                \* take_damage(damage_dealt); gain_stress(damage_dealt / 2)
                                struck == gain_stress(
                                              Survivor_take_damage(survivors[t], damage_dealt),
                                              damage_dealt)
                            IN  /\ survivors' = [survivors EXCEPT ![t] = struck]
                                /\ active_survivors' = IF ~struck.is_alive
                                                       THEN Remove(active_survivors, t)
                                                       ELSE active_survivors
                                /\ hits' = [hits EXCEPT !.no_zombie_hits = FALSE]
                                /\ Draw(<<DrawChoice(active_survivors, target),
                                          DrawD100(hit_roll), DrawD100(crit_roll)>>)
                       ELSE /\ UNCHANGED <<hostVars, survivors, active_survivors, hits>>
                            /\ Draw(<<DrawChoice(active_survivors, target),
                                      DrawD100(hit_roll)>>)
    /\ UNCHANGED <<hostVars, decision, saved, zombies, global_resources, pc, environment_mods, node_danger,
                   active_zombies, combat_round, outcome_summary, calls, last, ret>>

\* lines 180-181: after the zombies' loop: break, or back to the loop test
ZombiePhaseEnd ==
    /\ pc = "zombies"
    /\ idx > Len(active_zombies)
    /\ pc' = IF active_survivors = << >> THEN "summary" ELSE "loop"
    /\ UNCHANGED <<hostVars, decision, rng, saved, survivors, zombies, global_resources, environment_mods, node_danger,
                   active_survivors, active_zombies, combat_round, idx,
                   outcome_summary, hits, calls, last, ret>>

\* lines 184-204: the summary is built and returned
CombatReturn ==
    /\ pc = "summary"
    /\ outcome_summary' = Summary(active_survivors, active_zombies, combat_round)
    /\ ret' = Summary(active_survivors, active_zombies, combat_round)
    /\ last' = [last EXCEPT !.state = "returned"]
    /\ pc' = "idle"
    /\ UNCHANGED <<hostVars, decision, rng, saved, survivors, zombies, global_resources, environment_mods, node_danger,
                   active_survivors, active_zombies, combat_round, idx, hits, calls>>

CombatStep ==
    \/ RoundStart
    \/ LoopExit
    \/ \E hit_roll \in HitRolls, crit_roll \in HitRolls :
           SurvivorAttack(hit_roll, crit_roll)
    \/ SurvivorPhaseEnd
    \/ \E hit_roll \in HitRolls, crit_roll \in HitRolls :
           ZombieAttack(hit_roll, crit_roll)
    \/ ZombiePhaseEnd
    \/ CombatReturn

-----------------------------------------------------------------------------
(* The actors and rosters explored *)

NoSkills == << >>

\* Survivor(name="Weak", ...) of tests/test_combat_engine.py: every attribute 1
Weak == Survivor(Attrs(1, 1, 1, 1, 1, 1, 1), NoSkills)

\* the "Fighter" of tests/test_combat_engine.py, with Stealth learned
Fighter == Survivor(Attrs(8, 6, 4, 5, 3, 7, 6),
                    [n \in {"Melee Weaponry", "Stealth"} |-> 2])

\* a marksman whose computed hit chance is 100 against the shipped zombies
Sniper == Survivor(Attrs(2, 10, 5, 7, 4, 9, 10),
                   [n \in {"Small Arms", "Tactics"} |-> IF n = "Tactics" THEN 2 ELSE 5])

\* a fragile marksman: as sure a shot, with the least health and stress pools
Scout == Survivor(Attrs(1, 10, 1, 1, 1, 1, 1), [n \in {"Small Arms"} |-> 5])

\* attributes beyond 10, which the constructor accepts: no zombie can hit
Ghost == Survivor(Attrs(1, 25, 1, 1, 1, 1, 1), NoSkills)

\* AVAILABLE_ZOMBIES["shambler"], ["charger"]
Shambler == Zombie(30, 10, 5)

Charger == Zombie(50, 15, 10)

\* a zombie that fells any survivor at one blow
Brute == Zombie(20, 150, 5)

\* a zombie whose defense leaves every survivor a hit chance of 0
Wall == Zombie(30, 10, 400)

Dead(actor) == [actor EXCEPT !.current_hp = 0, !.is_alive = FALSE]

\* the history before any combat
NoHits == [all_survivor_hits |-> TRUE, no_zombie_hits |-> TRUE, hits_needed |-> 0]

NoCombat ==
    /\ environment_mods = [Fog |-> FALSE]
    /\ node_danger = 1
    /\ active_survivors = << >>
    /\ active_zombies = << >>
    /\ combat_round = 0
    /\ idx = 0
    /\ outcome_summary = NoSummary
    /\ hits = NoHits

NoCall ==
    /\ calls = 0
    /\ last = Returned("none")
    /\ ret = None
    /\ decision = NoDecision
    /\ io = NoIO /\ threads = NoThreads /\ creation = NoCreation
    /\ game_day = 1 /\ game_map = << >>
    /\ rng = Unseeded
    /\ saved = None

-----------------------------------------------------------------------------
(* Spec: a game of one survivor and one zombie, on which the control      *)
(* thread calls the actor operations with the amounts the repository      *)
(* passes, resolve_action and resolve_combat.  The survivors are sure     *)
(* shots, so that a combat is over in a few rounds; SpecCombat explores   *)
(* the long combats.                                                      *)

Init ==
    /\ survivors \in {<<Sniper>>, <<Scout>>}
    /\ zombies = <<Shambler>>
    /\ global_resources = InitialResources
    /\ pc = "idle"
    /\ NoCombat
    /\ NoCall

ActorCall(amounts) ==
    \/ \E k \in DOMAIN survivors, a \in amounts : TakeDamageCall(k, a)
    \/ \E k \in DOMAIN survivors, a \in amounts : HealCall(k, a)
    \/ \E k \in DOMAIN survivors, a \in amounts : GainStressCall(k, a)
    \/ \E k \in DOMAIN survivors, a \in amounts : ReduceStressCall(k, a)
    \/ \E k \in DOMAIN zombies, a \in amounts : ZombieTakeDamageCall(k, a)

ResolveAction ==
    \E who \in Participants :
        \E action_obj \in {ScavengeFood, ClearInfestation, CraftAmmunition},
           danger \in {0, 12}, roll \in Rolls, injury_rolls \in [DOMAIN who -> HitRolls] :
            ResolveActionCall(who, action_obj, danger, roll, injury_rolls)

ResolveCombat ==
    \E danger \in {1, 3} : CombatBegin([Fog |-> FALSE], danger)

Next ==
    \/ ActorCall(Amounts)
    \/ ResolveAction
    \/ ResolveCombat
    \/ CombatStep

Spec == Init /\ [][Next]_vars

-----------------------------------------------------------------------------
(* SpecActor: the actor operations alone, called with any amount *)

NextActor == ActorCall(AnyAmounts)

SpecActor == Init /\ [][NextActor]_vars

-----------------------------------------------------------------------------
(* SpecCombat: one call of resolve_combat on each of the rosters below *)

Scenario(survs, zombs, fog, danger) ==
    [survivors |-> survs, zombies |-> zombs, Fog |-> fog, danger |-> danger]

Scenarios ==
    { Scenario(<< >>, << >>, FALSE, 1),
      Scenario(<<Weak>>, << >>, FALSE, 1),
      Scenario(<< >>, <<Shambler>>, FALSE, 3),
      Scenario(<<Dead(Weak)>>, <<Shambler>>, FALSE, 3),
      Scenario(<<Weak>>, <<Dead(Shambler)>>, FALSE, 3),
      Scenario(<<Dead(Weak)>>, <<Dead(Shambler)>>, FALSE, 1),
      Scenario(<<Weak>>, <<Charger>>, FALSE, 1),
      Scenario(<<Fighter, Weak>>, <<Brute, Brute>>, TRUE, 2),
      Scenario(<<Sniper, Dead(Weak)>>, <<Shambler, Brute>>, FALSE, 1),
      Scenario(<<Ghost>>, <<Wall>>, FALSE, 1),
      Scenario(<<Weak>>, <<Brute>>, FALSE, 119),
      Scenario(<<Weak>>, <<Brute>>, FALSE, 120) }

InitCombat ==
    /\ \E sc \in Scenarios :
          /\ survivors = sc.survivors
          /\ zombies = sc.zombies
          /\ environment_mods = [Fog |-> sc.Fog]
          /\ node_danger = sc.danger
    /\ global_resources = InitialResources
    /\ pc = "idle"
    /\ active_survivors = << >>
    /\ active_zombies = << >>
    /\ combat_round = 0
    /\ idx = 0
    /\ outcome_summary = NoSummary
    /\ hits = NoHits
    /\ NoCall

CombatCall == calls = 0 /\ CombatBegin(environment_mods, node_danger)

NextCombat == CombatCall \/ CombatStep

SpecCombat == InitCombat /\ [][NextCombat]_vars

\* resolve_combat is a synchronous function: straight-line code and loops,
\* with no wait, lock or callback, so a step that can be taken is taken
FairSpecCombat == SpecCombat /\ WF_vars(NextCombat)

-----------------------------------------------------------------------------
(* SpecLedger: add_resource and remove_resource called on a new Game with  *)
(* names of the initial ledger and a name absent from it, and quantities   *)
(* of either sign                                                          *)

\* ledger calls explored from the initial state
MaxLedgerCalls == 4

ResourceNames == {"Food", "Medkit"}

Quantities == {-3, 0, 2, 5}

\* game.add_resource(resource_name, quantity)
AddResourceCall(resource_name, quantity) ==
    /\ pc = "idle"
    /\ calls < MaxLedgerCalls
    /\ global_resources' = add_resource(global_resources, resource_name, quantity)
    /\ last' = Returned("add_resource")
    /\ ret' = None
    /\ calls' = calls + 1
    /\ UNCHANGED <<hostVars, decision, rng, saved, survivors, zombies, pc, combatVars>>

\* game.remove_resource(resource_name, quantity)
RemoveResourceCall(resource_name, quantity) ==
    /\ pc = "idle"
    /\ calls < MaxLedgerCalls
    /\ global_resources' = remove_resource(global_resources, resource_name, quantity)
    /\ last' = Returned("remove_resource")
    /\ ret' = remove_resource_ok(global_resources, resource_name, quantity)
    /\ calls' = calls + 1
    /\ UNCHANGED <<hostVars, decision, rng, saved, survivors, zombies, pc, combatVars>>

\* a new Game: no survivors, the initial ledger
InitLedger ==
    /\ survivors = << >>
    /\ zombies = << >>
    /\ global_resources = InitialResources
    /\ pc = "idle"
    /\ NoCombat
    /\ NoCall

NextLedger ==
    \/ \E n \in ResourceNames, q \in Quantities : AddResourceCall(n, q)
    \/ \E n \in ResourceNames, q \in Quantities : RemoveResourceCall(n, q)

SpecLedger == InitLedger /\ [][NextLedger]_vars

-----------------------------------------------------------------------------
(* SpecTier: the tier classification of resolve_action and make_decision,  *)
(* applied once to every roll of the die and every whole chance            *)

Chances == 0..100

\* resolve_action, lines 74-89, on the roll drawn and the chance computed
ClassifyAction(roll, success_chance) ==
    /\ calls = 0
    /\ last' = Returned("resolve_action: tier")
    /\ ret' = [roll |-> roll, chance |-> success_chance,
               tiers |-> resolve_action_tiers(roll, success_chance)]
    /\ calls' = calls + 1
    /\ UNCHANGED <<hostVars, decision, rng, saved, survivors, zombies, global_resources, pc, combatVars>>

\* make_decision, lines 131-159, on the roll drawn and the chance computed
ClassifyDecision(roll, final_chance) ==
    /\ calls = 0
    /\ last' = Returned("make_decision: outcome_type")
    /\ ret' = [roll |-> roll, chance |-> final_chance,
               tiers |-> outcome_types(roll, final_chance)]
    /\ calls' = calls + 1
    /\ UNCHANGED <<hostVars, decision, rng, saved, survivors, zombies, global_resources, pc, combatVars>>

NextTier ==
    \/ \E roll \in D100, chance \in Chances : ClassifyAction(roll, chance)
    \/ \E roll \in D100, chance \in Chances : ClassifyDecision(roll, chance)

SpecTier == InitLedger /\ [][NextTier]_vars

-----------------------------------------------------------------------------
(* SpecChance: the four chance calculators on parties, targets and         *)
(* modifiers up to the extremes below                                      *)

\* a survivor with every attribute and two skills far beyond the 1..10 range
Titan == Survivor(Attrs(60, 60, 60, 60, 60, 60, 60),
                  [n \in {"Melee Weaponry", "Mechanics"} |-> 30])

\* a survivor with negative attributes, which the constructor accepts
Feeble == Survivor(Attrs(-40, -40, -40, -40, -40, 1, 1), NoSkills)

Parties == {<< >>, <<Weak>>, <<Fighter>>, <<Sniper, Scout>>, <<Titan, Fighter>>,
            <<Feeble>>}

Actors == {Weak, Fighter, Sniper, Scout, Ghost, Titan, Feeble}

\* zombies of the shipped table and of extreme defense, either sign
Targets == {Shambler, Charger, Wall, Zombie(30, 10, 0 - 400), Zombie(30, 10, 121)}

DangerModifiers == (0 - 12)..30

Environments == {[Fog |-> f] : f \in BOOLEAN}

\* Choice(..., base_success_chance, prerequisites, ...)
Choice(base_success_chance, prerequisites) ==
    [base_success_chance |-> base_success_chance, prerequisites |-> prerequisites]

BaseChances == (0 - 30)..130

Prerequisites ==
    { << >>,
      [p \in {"skill"} |-> [n \in {"Stealth"} |-> 1]],
      [p \in {"attribute"} |-> [n \in {"INT"} |-> 3]],
      [p \in {"skill", "attribute"} |->
          IF p = "skill" THEN [n \in {"Small Arms", "Mechanics"} |-> 2]
          ELSE [n \in {"STR", "AGI"} |-> 0 - 5]] }

\* calculate_action_success_chance(survivors, action_obj, action_type, danger)
ActionChanceCall(survs, action_obj, action_type, danger) ==
    /\ calls = 0
    /\ last' = Returned("calculate_action_success_chance")
    /\ ret' = [value2 |-> 2 * calculate_action_success_chance(
                                survs, action_obj, action_type, danger)]
    /\ calls' = calls + 1
    /\ UNCHANGED <<hostVars, decision, rng, saved, survivors, zombies, global_resources, pc, combatVars>>

\* calculate_survivor_hit_chance(attacker, target, environment_mods)
SurvivorHitChanceCall(attacker, target, env) ==
    /\ calls = 0
    /\ last' = Returned("calculate_survivor_hit_chance")
    /\ ret' = [value2 |-> calculate_survivor_hit_chance(attacker, target, env)]
    /\ calls' = calls + 1
    /\ UNCHANGED <<hostVars, decision, rng, saved, survivors, zombies, global_resources, pc, combatVars>>

\* calculate_zombie_hit_chance(attacker, target, environment_mods)
ZombieHitChanceCall(attacker, target, env) ==
    /\ calls = 0
    /\ last' = Returned("calculate_zombie_hit_chance")
    /\ ret' = [value2 |-> 2 * calculate_zombie_hit_chance(attacker, target, env)]
    /\ calls' = calls + 1
    /\ UNCHANGED <<hostVars, decision, rng, saved, survivors, zombies, global_resources, pc, combatVars>>

\* calculate_choice_specific_chance(choice, survivors, game_instance)
ChoiceChanceCall(choice, survs) ==
    /\ calls = 0
    /\ last' = Returned("calculate_choice_specific_chance")
    /\ ret' = [value2 |-> 2 * calculate_choice_specific_chance(choice, survs)]
    /\ calls' = calls + 1
    /\ UNCHANGED <<hostVars, decision, rng, saved, survivors, zombies, global_resources, pc, combatVars>>

NextChance ==
    \/ \E survs \in Parties, action_obj \in {ScavengeFood, ClearInfestation, CraftAmmunition},
          action_type \in {"quest", "base_job", "event"}, danger \in DangerModifiers :
           ActionChanceCall(survs, action_obj, action_type, danger)
    \/ \E attacker \in Actors, target \in Targets, env \in Environments :
           SurvivorHitChanceCall(attacker, target, env)
    \/ \E attacker \in Targets, target \in Actors, env \in Environments :
           ZombieHitChanceCall(attacker, target, env)
    \/ \E base \in BaseChances, prerequisites \in Prerequisites, survs \in Parties :
           ChoiceChanceCall(Choice(base, prerequisites), survs)

SpecChance == InitLedger /\ [][NextChance]_vars

-----------------------------------------------------------------------------
(* SpecAction: one call of resolve_action, on every roster, ledger,        *)
(* descriptor and danger below.  saved holds the call and the state it     *)
(* starts from, and the generator records the draws the call takes, so     *)
(* that the state after the call can be compared with them.                *)

\* the call and the state it is made in, before any result
SavedCall(call, survs, zombs, ledger) ==
    [ call  |-> call,
      start |-> [survivors |-> survs, zombies |-> zombs, global_resources |-> ledger],
      first |-> None ]

\* rosters of fresh survivors, of survivors under stress and with one dead
ActionRosters ==
    { << >>, <<Weak>>, <<Sniper, Scout>>,
      <<gain_stress(Weak, 2 * 5), gain_stress(Fighter, 2 * 90)>>,
      <<Fighter, Survivor_take_damage(gain_stress(Scout, 2 * 20), 100)>> }

\* the ledger of a new game, and one holding scrap for many ammunition recipes
ActionLedgers == {InitialResources, add_resource(InitialResources, "Scrap", 100)}

ActionDescriptors == {ScavengeFood, ClearInfestation, CraftAmmunition, RestAndRecover, Raid}

\* the call saved is made, with every roll the generator can yield
ResolveActionSaved ==
    /\ saved.call.op = "resolve_action"
    /\ calls = 0 \/ (calls = 1 /\ rng.mode = "replay")
    /\ \E roll \in Rolls, injury_rolls \in [DOMAIN saved.call.who -> HitRolls] :
           ResolveActionCall(saved.call.who, saved.call.action_obj, saved.call.danger,
                             roll, injury_rolls)

InitAction ==
    /\ survivors \in ActionRosters
    /\ zombies = << >>
    /\ global_resources \in ActionLedgers
    /\ pc = "idle"
    /\ NoCombat
    /\ calls = 0
    /\ last = Returned("none")
    /\ ret = None
    /\ decision = NoDecision
    /\ io = NoIO /\ threads = NoThreads /\ creation = NoCreation
    /\ game_day = 1 /\ game_map = << >>
    /\ rng = [mode |-> "record", draws |-> << >>]
    /\ \E action_obj \in ActionDescriptors, danger \in {0, 12} :
           saved = SavedCall([op |-> "resolve_action",
                              who |-> [k \in DOMAIN survivors |-> k],
                              action_obj |-> action_obj, danger |-> danger],
                             survivors, zombies, global_resources)

NextAction == ResolveActionSaved

SpecAction == InitAction /\ [][NextAction]_vars

\* the state SpecAction is in after its call: the participants before and
\* after, the descriptor, the roll drawn and the tier it fell in
ActionDone == last.op = "resolve_action"

ActionRoll == rng.draws[1].value

ActionChance ==
    calculate_action_success_chance(saved.start.survivors, saved.call.action_obj,
                                    ActionType(saved.call.action_obj), saved.call.danger)

ActionFailed == ActionDone /\ ~is_successful(ActionRoll, ActionChance)

ActionSucceeded == ActionDone /\ is_successful(ActionRoll, ActionChance)

\* 2 on a critical failure, 1 on another failure
FailureFactor == IF is_critical_failure(ActionRoll, ActionChance) THEN 2 ELSE 1

\* 2 on a critical success, 1 on another success
SuccessFactor == IF is_critical_success(ActionRoll, ActionChance) THEN 2 ELSE 1

\* mapping.get(key): the set holding the value of key, empty without the key
Get(mapping, key) == {mapping[i][2] : i \in {j \in DOMAIN mapping : mapping[j][1] = key}}

-----------------------------------------------------------------------------
(* SpecReplay: a call of resolve_action or of resolve_combat is made with  *)
(* the generator recording its draws; then the rosters and the ledger are  *)
(* put back as they were, the generator is seeded again, and the same      *)
(* call is made a second time, served with the draws of the first.         *)

\* the rosters of the combats replayed: every fight ends within few rounds
\* (the last with two zombies that one hit destroys), and one ends at once
ReplayRosters ==
    { [survivors |-> <<Sniper>>, zombies |-> <<Shambler>>],
      [survivors |-> <<Sniper, Scout>>, zombies |-> <<Shambler>>],
      [survivors |-> <<Sniper>>, zombies |-> << >>],
      [survivors |-> <<Sniper>>,
       zombies |-> <<Zombie_take_damage(Shambler, 20), Zombie_take_damage(Shambler, 20)>>] }

InitReplayCombat ==
    /\ \E r \in ReplayRosters, danger \in {1} :
           /\ survivors = r.survivors
           /\ zombies = r.zombies
           /\ saved = SavedCall([op |-> "resolve_combat", env |-> [Fog |-> FALSE],
                                 danger |-> danger],
                                r.survivors, r.zombies, InitialResources)
    /\ global_resources = InitialResources
    /\ pc = "idle"
    /\ NoCombat
    /\ calls = 0
    /\ last = Returned("none")
    /\ ret = None
    /\ decision = NoDecision
    /\ io = NoIO /\ threads = NoThreads /\ creation = NoCreation
    /\ game_day = 1 /\ game_map = << >>
    /\ rng = [mode |-> "record", draws |-> << >>]

InitReplay == InitAction \/ InitReplayCombat

\* the call saved is made: resolve_combat
ResolveCombatSaved ==
    /\ saved.call.op = "resolve_combat"
    /\ calls = 0 \/ (calls = 1 /\ rng.mode = "replay")
    /\ CombatBegin(saved.call.env, saved.call.danger)

\* after the first run: its result is kept in saved.first, the rosters are
\* built anew and the ledger is put back (as survivors_factory() and
\* zombies_factory() do in harness.py), and random.seed(seed) is called
\* with the seed of the first run
Reseed ==
    /\ pc = "idle"
    /\ calls = 1
    /\ rng.mode = "record"
    /\ last.state = "returned"
    /\ saved' = [saved EXCEPT !.first = [survivors |-> survivors, zombies |-> zombies,
                                         global_resources |-> global_resources,
                                         ret |-> ret]]
    /\ survivors' = saved.start.survivors
    /\ zombies' = saved.start.zombies
    /\ global_resources' = saved.start.global_resources
    /\ rng' = [rng EXCEPT !.mode = "replay"]
    /\ last' = Returned("random.seed")
    /\ ret' = None
    /\ UNCHANGED <<hostVars, decision, pc, combatVars, calls>>

NextReplay ==
    \/ ResolveActionSaved
    \/ ResolveCombatSaved
    \/ CombatStep
    \/ Reseed

SpecReplay == InitReplay /\ [][NextReplay]_vars

\* the second run has returned
ReplayDone == rng.mode # "record" /\ calls = 2 /\ pc = "idle" /\ last.state = "returned"

-----------------------------------------------------------------------------
(* SpecDecision: one call of make_decision on a roster of two, with the    *)
(* choice lists, participant lists, player inputs and rolls below.         *)
(* decision holds the call: its arguments, the numbers offered, how often  *)
(* input() was called and how many rolls were drawn.                       *)

MaxInputs == 2

\* effect bundles, as the decisions of game.py carry them
Gain == [resource_gain |-> [Scrap |-> 10]]

Loss == [stress_gain |-> 5]

\* the choices explored: without prerequisites; with a skill and an
\* attribute group; with a skill group no survivor of the roster meets;
\* with an attribute group of two names; with an empty skill group; with a
\* threshold on a name that is no attribute
DecisionChoices ==
    { ChoiceWithEffects(50, << >>, Gain, Loss),
      ChoiceWithEffects(40, [p \in {"skill", "attribute"} |->
                                IF p = "skill" THEN [n \in {"Stealth"} |-> 2]
                                ELSE [n \in {"INT"} |-> 5]], Gain, Loss),
      ChoiceWithEffects(60, [p \in {"skill"} |->
                                [n \in {"Mechanics", "Small Arms"} |->
                                    IF n = "Mechanics" THEN 1 ELSE 6]], Gain, Loss),
      ChoiceWithEffects(0, [p \in {"attribute"} |->
                               [n \in {"STR", "CHR"} |-> IF n = "STR" THEN 8 ELSE 9]],
                        Loss, Gain),
      ChoiceWithEffects(50, [p \in {"skill"} |-> << >>], Gain, Loss),
      ChoiceWithEffects(50, [p \in {"attribute"} |-> [n \in {"LUCK"} |-> 0]], Gain, Loss) }

ChoiceLists ==
    {<< >>} \cup {<<c>> : c \in DecisionChoices}
            \cup {<<c, d>> : c \in DecisionChoices, d \in DecisionChoices}

\* affected_survivors, as positions in the roster (None becomes the empty list)
Affected == {<< >>, <<1>>, <<2>>, <<1, 2>>}

\* make_decision(prompt, choices, game_instance, affected_survivors), lines
\* 72-124: the filter; the forced failure when nothing is available, the
\* KeyError of the chance calculation, or the wait for the player's input
DecisionBegin(choices, who) ==
    /\ Idle
    /\ LET affected_survivors == [i \in DOMAIN who |-> survivors[who[i]]]
           available == available_choices(choices, affected_survivors)
       IN  /\ decision' = [NoDecision EXCEPT !.choices = choices, !.who = who,
                                             !.available = available]
           /\ IF available = {}
              THEN /\ ret' = [raised |-> FALSE, outcome_type |-> forced_outcome,
                              effects |-> NoViableChoices]
                   /\ last' = Returned("make_decision")
                   /\ pc' = pc
              ELSE IF \E i \in available : choice_chance_raises(choices[i], affected_survivors)
              THEN /\ ret' = [raised |-> TRUE, outcome_type |-> "none", effects |-> None]
                   /\ last' = Returned("make_decision")
                   /\ pc' = pc
              ELSE /\ ret' = None
                   /\ last' = [op |-> "make_decision", state |-> "running"]
                   /\ pc' = "input"
    /\ calls' = calls + 1
    /\ UNCHANGED <<hostVars, rng, saved, survivors, zombies, global_resources, combatVars>>

\* lines 122-128: input() returns a string that is no key of choice_map
\* (player_input is the number typed, 0 for any other text)
DecisionInvalidInput(player_input) ==
    /\ pc = "input"
    /\ decision.inputs < MaxInputs
    /\ player_input \notin decision.available
    /\ decision' = [decision EXCEPT !.inputs = @ + 1]
    /\ UNCHANGED <<hostVars, rng, saved, survivors, zombies, global_resources, pc, combatVars,
                   calls, last, ret>>

\* lines 122-166: input() returns a key of choice_map; the roll, the tier,
\* the bundle returned
DecisionChosen(player_input, roll) ==
    /\ pc = "input"
    /\ player_input \in decision.available
    /\ LET chosen_choice_obj == decision.choices[player_input]
           final_chance ==
               calculate_choice_specific_chance(
                   chosen_choice_obj,
                   [i \in DOMAIN decision.who |-> survivors[decision.who[i]]])
           outcome_type == CHOOSE t \in outcome_types(roll, final_chance) : TRUE
       IN  ret' = [raised |-> FALSE, outcome_type |-> outcome_type,
                   effects |-> effects_to_apply(chosen_choice_obj, outcome_type)]
    /\ decision' = [decision EXCEPT !.inputs = @ + 1, !.rolls = @ + 1,
                                    !.chosen = player_input, !.roll = roll]
    /\ Draw(<<DrawD100(roll)>>)
    /\ last' = Returned("make_decision")
    /\ pc' = "idle"
    /\ UNCHANGED <<hostVars, saved, survivors, zombies, global_resources, combatVars, calls>>

InitDecision ==
    /\ survivors = <<Fighter, Sniper>>
    /\ zombies = << >>
    /\ global_resources = InitialResources
    /\ pc = "idle"
    /\ NoCombat
    /\ calls = 0
    /\ last = Returned("none")
    /\ ret = None
    /\ decision = NoDecision
    /\ io = NoIO /\ threads = NoThreads /\ creation = NoCreation
    /\ game_day = 1 /\ game_map = << >>
    /\ rng = [mode |-> "record", draws |-> << >>]
    /\ saved = None

\* the one call of make_decision
DecisionCall(choices, who) == calls = 0 /\ DecisionBegin(choices, who)

NextDecision ==
    \/ \E choices \in ChoiceLists, who \in Affected : DecisionCall(choices, who)
    \/ \E player_input \in 0..3 : DecisionInvalidInput(player_input)
    \/ \E player_input \in 0..3, roll \in Rolls : DecisionChosen(player_input, roll)

SpecDecision == InitDecision /\ [][NextDecision]_vars

\* make_decision has returned
DecisionReturned == last = Returned("make_decision")

\* the participants of the call
AffectedSurvivors == [i \in DOMAIN decision.who |-> survivors[decision.who[i]]]

-----------------------------------------------------------------------------
(* SpecDamage: Survivor.take_damage applied once to a living survivor of   *)
(* every Constitution, at full health or already hurt, with every whole    *)
(* amount up to MaxDamage                                                  *)

MaxDamage == 220

\* a survivor of Constitution con who has lost the amount lost of health
Hurt(con, lost) ==
    [Survivor(Attrs(5, 5, 5, 5, 5, con, 5), NoSkills) EXCEPT !.current_hp = @ - lost]

\* s.take_damage(amount) on a survivor outside a roster
TakeDamageOn(s, amount) ==
    /\ calls = 0
    /\ last' = Returned("Survivor.take_damage")
    /\ ret' = [before |-> s, amount |-> amount, after |-> Survivor_take_damage(s, amount)]
    /\ calls' = calls + 1
    /\ UNCHANGED <<hostVars, decision, rng, saved, survivors, zombies, global_resources, pc, combatVars>>

NextDamage ==
    \E con \in 1..10, lost \in {0, 30}, amount \in 0..MaxDamage :
        TakeDamageOn(Hurt(con, lost), amount)

SpecDamage == InitLedger /\ [][NextDamage]_vars

-----------------------------------------------------------------------------
(* SpecDice: chance_check and roll_dice of utils.py applied once, to whole *)
(* and half percentages from below 0 to above 100 and to side counts from  *)
(* negative ones up to MaxSides                                            *)

MaxSides == 20

\* percentages, doubled: -2.0, -1.5, ..., 102.0
Percentages2 == (0 - 4)..204

\* chance_check(percentage2 / 2); roll is the roll_d100() it draws when it
\* does not raise (ret.roll = 0: nothing was drawn)
ChanceCheckCall(percentage2, roll) ==
    /\ calls = 0
    /\ last' = Returned("chance_check")
    /\ IF chance_check_raises(percentage2)
       THEN /\ ret' = [percentage2 |-> percentage2, raised |-> TRUE, roll |-> 0,
                       value |-> FALSE]
            /\ UNCHANGED rng
       ELSE /\ ret' = [percentage2 |-> percentage2, raised |-> FALSE, roll |-> roll,
                       value |-> chance_check(percentage2, roll)]
            /\ Draw(<<DrawD100(roll)>>)
    /\ calls' = calls + 1
    /\ UNCHANGED <<hostVars, decision, saved, survivors, zombies, global_resources, pc, combatVars>>

\* roll_dice(num_sides) raising ValueError
RollDiceRaise(num_sides) ==
    /\ calls = 0
    /\ roll_dice_raises(num_sides)
    /\ last' = Returned("roll_dice")
    /\ ret' = [num_sides |-> num_sides, raised |-> TRUE, value |-> 0]
    /\ calls' = calls + 1
    /\ UNCHANGED <<hostVars, decision, rng, saved, survivors, zombies, global_resources, pc, combatVars>>

\* roll_dice(num_sides) returning value
RollDiceCall(num_sides, value) ==
    /\ calls = 0
    /\ ~roll_dice_raises(num_sides)
    /\ value \in roll_dice(num_sides)
    /\ last' = Returned("roll_dice")
    /\ ret' = [num_sides |-> num_sides, raised |-> FALSE, value |-> value]
    /\ Draw(<<[kind |-> "randint", range |-> num_sides, value |-> value]>>)
    /\ calls' = calls + 1
    /\ UNCHANGED <<hostVars, decision, saved, survivors, zombies, global_resources, pc, combatVars>>

NextDice ==
    \/ \E percentage2 \in Percentages2, roll \in D100 : ChanceCheckCall(percentage2, roll)
    \/ \E num_sides \in (0 - 3)..MaxSides : RollDiceRaise(num_sides)
    \/ \E num_sides \in (0 - 3)..MaxSides, value \in (0 - 3)..(MaxSides + 1) :
           RollDiceCall(num_sides, value)

SpecDice == InitLedger /\ [][NextDice]_vars

-----------------------------------------------------------------------------
(* SpecCraft: one call of craft_item, for every recipe id, quantity, ledger *)
(* and crafter below, with the generator passed yielding every roll         *)

MaxQuantity == 2

\* random.Random.random() in thousandths, around the success and the
\* critical thresholds
CraftRolls == {0, 800, 801, 900, 901, 990, 991, 999}

CritRolls == {0, 50, 51, 500, 999}

\* rng.random() returning roll thousandths
DrawRandom(roll) == [kind |-> "random", range |-> 1000, value |-> roll]

\* the recipe ids of items.py and one that names no recipe and no product
RecipeIds == DOMAIN RECIPES \cup {"Junk"}

\* a survivor who learned Mechanics at the level given
Mechanic(level) == Survivor(Weak.attributes, [Mechanics |-> level])

\* no crafter, one without Mechanics, and crafters of Mechanics 1, 3 and 6
CraftParties == {<< >>, <<Weak>>, <<Mechanic(1)>>, <<Mechanic(3)>>, <<Mechanic(6)>>}

CraftLedgers ==
    { add_resource(add_resource(InitialResources, "Scrap", scrap), "ElectronicParts", parts) :
        scrap \in {0, 4, 10, 20}, parts \in {0, 1, 5, 8} }

\* the crafter passed to craft_item: survivors[1], or None
Crafter(survs) == IF survs = << >> THEN None ELSE survs[1]

\* the call saved is made, with every number the generator can yield
CraftItemCall ==
    /\ saved.call.op = "craft_item"
    /\ pc = "idle"
    /\ calls = 0
    /\ \E roll \in CraftRolls, crit_roll \in CritRolls :
           LET out == craft_item(global_resources, saved.call.recipe_id,
                                 saved.call.quantity, Crafter(survivors), roll, crit_roll)
           IN  /\ global_resources' = out.ledger
               /\ survivors' = IF survivors = << >> THEN survivors ELSE <<out.crafter>>
               /\ ret' = [raised |-> out.raised, value |-> out.result]
               /\ Draw(SubSeq(<<DrawRandom(roll), DrawRandom(crit_roll)>>, 1, out.drawn))
    /\ calls' = calls + 1
    /\ last' = Returned("craft_item")
    /\ UNCHANGED <<hostVars, zombies, pc, combatVars, decision, saved>>

InitCraft ==
    /\ survivors \in CraftParties
    /\ zombies = << >>
    /\ global_resources \in CraftLedgers
    /\ pc = "idle"
    /\ NoCombat
    /\ calls = 0
    /\ last = Returned("none")
    /\ ret = None
    /\ decision = NoDecision
    /\ io = NoIO /\ threads = NoThreads /\ creation = NoCreation
    /\ game_day = 1 /\ game_map = << >>
    /\ rng = [mode |-> "record", draws |-> << >>]
    /\ \E recipe_id \in RecipeIds, quantity \in 0..MaxQuantity :
           saved = SavedCall([op |-> "craft_item", recipe_id |-> recipe_id,
                              quantity |-> quantity],
                             survivors, zombies, global_resources)

NextCraft == CraftItemCall

SpecCraft == InitCraft /\ [][NextCraft]_vars

\* the state SpecCraft is in after its call, and the call's recipe, the
\* crafter's Mechanics level and the amount of resource k the call asks for
CraftDone == last.op = "craft_item"

CraftRecipe == find_recipe(saved.call.recipe_id)

CraftMechanics ==
    IF saved.start.survivors = << >> THEN 0
    ELSE SkillLevel(saved.start.survivors[1], "Mechanics")

CraftAsked(k) == Max(0, CraftRecipe.requires[k] - CraftMechanics) * saved.call.quantity

\* the recipe is known and the ledger held every amount asked for
CraftProceeded ==
    /\ CraftRecipe # None
    /\ \A k \in DOMAIN CraftRecipe.requires :
           Quantity(saved.start.global_resources, k) >= CraftAsked(k)

-----------------------------------------------------------------------------
(* SpecIO: a worker thread runs a script of print calls around at most one  *)
(* blocking call (input or present_choices) on a PygameIO, while the UI      *)
(* thread makes up to MaxUiCalls calls of its own, in any interleaving       *)

MaxLines == 2

MaxUiCalls == 4

\* the calls of a script; line n stands for the text of the n-th print
PrintOp(n) == [op |-> "print", text |-> n]

InputOp(prompt) == [op |-> "input", prompt |-> prompt]

ChoicesOp(prompt, options) ==
    [op |-> "present_choices", prompt |-> prompt, options |-> options]

BlockingOps ==
    {InputOp("Name?"), ChoicesOp("Pick?", <<"one", "two">>), ChoicesOp("Go?", <<"yes">>)}

\* lines 1..MaxLines printed in order, with the calls of middle made after
\* the first k of them
ScriptAround(middle, k) ==
    [i \in 1..k |-> PrintOp(i)] \o middle \o [i \in 1..(MaxLines - k) |-> PrintOp(k + i)]

IOScripts ==
    {ScriptAround(<<b>>, k) : b \in BlockingOps, k \in 0..MaxLines}
        \cup {ScriptAround(<< >>, 0)}

Responses == {"1", "2"}

WorkerOp == threads.worker.script[threads.worker.pos]

WorkerIdle ==
    /\ threads.worker.pc = "idle"
    /\ threads.worker.pos <= Len(threads.worker.script)

WorkerDone ==
    /\ threads.worker.pc = "idle"
    /\ threads.worker.pos > Len(threads.worker.script)

ioFrame ==
    <<survivors, zombies, global_resources, pc, combatVars, calls, last, ret,
      decision, rng, saved, creation, game_day, game_map>>

\* print, line 57: the attribute self.output is read
PrintLoad ==
    /\ WorkerIdle
    /\ WorkerOp.op = "print"
    /\ threads' = [threads EXCEPT !.worker.ref = io.output, !.worker.pc = "print_append"]
    /\ UNCHANGED <<io, ioFrame>>

\* print, line 57: append(text) on the list read
PrintAppend ==
    /\ threads.worker.pc = "print_append"
    /\ io' = [io EXCEPT !.heap[threads.worker.ref] = Append(@, WorkerOp.text)]
    /\ threads' = [threads EXCEPT !.worker.pc = "print_trim"]
    /\ UNCHANGED ioFrame

\* print, lines 58-59: the buffer is cut to its last OUTPUT_CAP lines
PrintTrim ==
    /\ threads.worker.pc = "print_trim"
    /\ LET buffer == io.heap[io.output]
       IN  io' = IF Len(buffer) > OUTPUT_CAP
                 THEN [io EXCEPT !.heap = Append(@, SubSeq(buffer, Len(buffer) - OUTPUT_CAP + 1,
                                                           Len(buffer))),
                                 !.output = Len(io.heap) + 1]
                 ELSE io
    /\ threads' = [threads EXCEPT !.worker.pc = "idle", !.worker.pos = @ + 1]
    /\ UNCHANGED ioFrame

\* input, lines 64-68, and present_choices, lines 110-115, under the lock
PromptBegin ==
    /\ WorkerIdle
    /\ WorkerOp.op \in {"input", "present_choices"}
    /\ io' = IF WorkerOp.op = "input" THEN input_begin(io, WorkerOp.prompt)
             ELSE present_choices_begin(io, WorkerOp.prompt, WorkerOp.options)
    /\ threads' = [threads EXCEPT !.worker.ref = Len(io.events) + 1,
                                  !.worker.pc = "wait"]
    /\ UNCHANGED ioFrame

\* input, line 71, and present_choices, line 118: ev.wait() returns once the
\* event is set
PromptWake ==
    /\ threads.worker.pc = "wait"
    /\ io.events[threads.worker.ref]
    /\ threads' = [threads EXCEPT !.worker.pc = "consume"]
    /\ UNCHANGED <<io, ioFrame>>

\* input, lines 73-79, and present_choices, lines 120-127, under the lock
PromptEnd ==
    /\ threads.worker.pc = "consume"
    /\ io' = IF WorkerOp.op = "input" THEN input_end(io) ELSE present_choices_end(io)
    /\ threads' = [threads EXCEPT
                      !.worker.returned = IF WorkerOp.op = "input" THEN io._response
                                          ELSE io._choice_response,
                      !.worker.pc = "idle",
                      !.worker.pos = @ + 1]
    /\ UNCHANGED ioFrame

UiIdle == threads.ui.pc = "idle" /\ threads.ui.calls < MaxUiCalls

\* provide_choice(index), under the lock
UiProvideChoice(index) ==
    /\ UiIdle
    /\ io' = provide_choice(io, index)
    /\ threads' = [threads EXCEPT
                      !.ui.calls = @ + 1,
                      !.ui.accepted = IF io._choice_event = None THEN @
                                      ELSE Append(@, [to |-> "present_choices",
                                                      value |-> index])]
    /\ UNCHANGED ioFrame

\* provide_input(response), under the lock
UiProvideInput(response) ==
    /\ UiIdle
    /\ io' = provide_input(io, response)
    /\ threads' = [threads EXCEPT
                      !.ui.calls = @ + 1,
                      !.ui.accepted = IF io._prompt_event = None THEN @
                                      ELSE Append(@, [to |-> "input", value |-> response])]
    /\ UNCHANGED ioFrame

\* get_pending_prompt(), under the lock
UiGetPendingPrompt ==
    /\ UiIdle
    /\ threads' = [threads EXCEPT !.ui.calls = @ + 1,
                                  !.ui.seen = [prompt |-> get_pending_prompt(io)]]
    /\ UNCHANGED <<io, ioFrame>>

\* get_pending_choices(), under the lock
UiGetPendingChoices ==
    /\ UiIdle
    /\ threads' = [threads EXCEPT !.ui.calls = @ + 1,
                                  !.ui.seen = [choices |-> get_pending_choices(io)]]
    /\ UNCHANGED <<io, ioFrame>>

\* pop_output, line 99: the attribute self.output is read
PopLoad ==
    /\ UiIdle
    /\ threads' = [threads EXCEPT !.ui.ref = io.output, !.ui.pc = "pop_copy"]
    /\ UNCHANGED <<io, ioFrame>>

\* pop_output, line 99: out = list(...) copies the list read
PopCopy ==
    /\ threads.ui.pc = "pop_copy"
    /\ threads' = [threads EXCEPT !.ui.out = io.heap[threads.ui.ref], !.ui.pc = "pop_store"]
    /\ UNCHANGED <<io, ioFrame>>

\* pop_output, lines 100-101: self.output = [] and out is returned
PopStore ==
    /\ threads.ui.pc = "pop_store"
    /\ io' = [io EXCEPT !.heap = Append(@, << >>), !.output = Len(io.heap) + 1]
    /\ threads' = [threads EXCEPT !.ui.popped = @ \o threads.ui.out,
                                  !.ui.calls = @ + 1,
                                  !.ui.pc = "idle"]
    /\ UNCHANGED ioFrame

InitIO ==
    /\ survivors = << >>
    /\ zombies = << >>
    /\ global_resources = InitialResources
    /\ pc = "idle"
    /\ NoCombat
    /\ calls = 0
    /\ last = Returned("none")
    /\ ret = None
    /\ decision = NoDecision
    /\ rng = Unseeded
    /\ saved = None
    /\ creation = NoCreation
    /\ game_day = 1 /\ game_map = << >>
    /\ io = NoIO
    /\ \E script \in IOScripts : threads = [NoThreads EXCEPT !.worker.script = script]

NextIO ==
    \/ PrintLoad
    \/ PrintAppend
    \/ PrintTrim
    \/ PromptBegin
    \/ PromptWake
    \/ PromptEnd
    \/ \E index \in Responses : UiProvideChoice(index)
    \/ \E response \in Responses : UiProvideInput(response)
    \/ UiGetPendingPrompt
    \/ UiGetPendingChoices
    \/ PopLoad
    \/ PopCopy
    \/ PopStore

SpecIO == InitIO /\ [][NextIO]_vars

-----------------------------------------------------------------------------
(* SpecCreation: a survivor is made by the constructor, called with values  *)
(* in and out of the documented range, or by character_creation_menu: the   *)
(* pre-generated one, or a custom one after any sequence of attribute       *)
(* steps, trait toggles and skill toggles on the attributes, traits and     *)
(* skills below and of uses of the points cheat                             *)

MaxCheats == 1

\* the attributes the player edits
EditedAttributes == {"STR", "INT"}

\* the traits and the skills the player toggles
EditedTraits == {"Strong", "Weak", "Lucky", "Claustrophobic"}

EditedSkills == {"Mechanics", "First Aid", "Electronics", "Melee Weaponry"}

\* values passed to the constructor for one attribute
ConstructorValues == {0 - 3, 0, 1, 5, 10, 11, 25}

creationFrame ==
    <<zombies, global_resources, pc, combatVars, calls, last, ret, decision, rng,
      saved, io, threads, game_day, game_map>>

\* Survivor(name, ..., <attr>_val = value), the other attributes at their
\* default
ConstructSurvivor(attr_name, value) ==
    /\ creation = NoCreation
    /\ survivors = << >>
    /\ survivors' = <<Survivor([Weak.attributes EXCEPT ![attr_name] = value], NoSkills)>>
    /\ UNCHANGED <<creation, creationFrame>>

\* character_creation_menu, lines 98-106: the answer '2'
ChoosePregenerated ==
    /\ creation = NoCreation
    /\ survivors = << >>
    /\ survivors' = <<Pregenerated>>
    /\ UNCHANGED <<creation, creationFrame>>

\* character_creation_menu, lines 108-118: any other answer, then the name
ChooseCustom ==
    /\ creation = NoCreation
    /\ survivors = << >>
    /\ creation' = NewCreation
    /\ UNCHANGED <<survivors, creationFrame>>

AttributePlus(attr_name) ==
    /\ creation # NoCreation
    /\ creation.phase = "menu"
    /\ creation' = attribute_plus(creation, attr_name)
    /\ UNCHANGED <<survivors, creationFrame>>

AttributeMinus(attr_name) ==
    /\ creation # NoCreation
    /\ creation.phase = "menu"
    /\ creation' = attribute_minus(creation, attr_name)
    /\ UNCHANGED <<survivors, creationFrame>>

TraitToggle(trait_name) ==
    /\ creation # NoCreation
    /\ creation.phase = "menu"
    /\ creation' = trait_toggle(creation, trait_name)
    /\ UNCHANGED <<survivors, creationFrame>>

SkillToggle(skill_name) ==
    /\ creation # NoCreation
    /\ creation.phase = "menu"
    /\ creation' = skill_toggle(creation, skill_name)
    /\ UNCHANGED <<survivors, creationFrame>>

\* lines 282-285: the answer '5' adds 100 points
CheatPoints ==
    /\ creation # NoCreation
    /\ creation.phase = "menu"
    /\ creation.cheats < MaxCheats
    /\ creation' = [creation EXCEPT !.points_pool = @ + 100, !.cheats = @ + 1]
    /\ UNCHANGED <<survivors, creationFrame>>

\* lines 279-281 and 291-313: the answer '4' builds the survivor
Finalize ==
    /\ creation # NoCreation
    /\ creation.phase = "menu"
    /\ creation' = [creation EXCEPT !.phase = "final"]
    /\ survivors' = <<final_survivor(creation)>>
    /\ UNCHANGED creationFrame

InitCreation ==
    /\ survivors = << >>
    /\ zombies = << >>
    /\ global_resources = InitialResources
    /\ pc = "idle"
    /\ NoCombat
    /\ NoCall

NextCreation ==
    \/ \E attr_name \in AttributeNames, value \in ConstructorValues :
           ConstructSurvivor(attr_name, value)
    \/ ChoosePregenerated
    \/ ChooseCustom
    \/ \E attr_name \in EditedAttributes : AttributePlus(attr_name)
    \/ \E attr_name \in EditedAttributes : AttributeMinus(attr_name)
    \/ \E trait_name \in EditedTraits : TraitToggle(trait_name)
    \/ \E skill_name \in EditedSkills : SkillToggle(skill_name)
    \/ CheatPoints
    \/ Finalize

SpecCreation == InitCreation /\ [][NextCreation]_vars

-----------------------------------------------------------------------------
(* SpecStress: gain_stress and reduce_stress called in any order, with whole *)
(* and half amounts from 0 up, on a new survivor of each SAN below           *)

MaxStressCalls == 4

\* amounts of gain_stress, doubled
GainAmounts2 == {0, 1, 5, 15, 40, 55, 90, 150, 200}

ReduceAmounts == {0, 1, 10, 13, 100}

\* a new survivor of the SAN given
Stoic(san) == Survivor([Weak.attributes EXCEPT !.SAN = san], NoSkills)

GainStressStep(amount2) ==
    /\ calls < MaxStressCalls
    /\ survivors' = [survivors EXCEPT ![1] = gain_stress(@, amount2)]
    /\ last' = Returned("gain_stress")
    /\ ret' = [before |-> survivors[1], amount2 |-> amount2]
    /\ calls' = calls + 1
    /\ UNCHANGED <<hostVars, decision, rng, saved, zombies, global_resources, pc, combatVars>>

ReduceStressStep(amount) ==
    /\ calls < MaxStressCalls
    /\ survivors' = [survivors EXCEPT ![1] = reduce_stress(@, amount)]
    /\ last' = Returned("reduce_stress")
    /\ ret' = [before |-> survivors[1], amount2 |-> 2 * amount]
    /\ calls' = calls + 1
    /\ UNCHANGED <<hostVars, decision, rng, saved, zombies, global_resources, pc, combatVars>>

InitStress ==
    /\ survivors \in {<<Stoic(san)>> : san \in {1, 4, 9, 10}}
    /\ zombies = << >>
    /\ global_resources = InitialResources
    /\ pc = "idle"
    /\ NoCombat
    /\ NoCall

NextStress ==
    \/ \E amount2 \in GainAmounts2 : GainStressStep(amount2)
    \/ \E amount \in ReduceAmounts : ReduceStressStep(amount)

SpecStress == InitStress /\ [][NextStress]_vars

-----------------------------------------------------------------------------
(* SpecMap: Game.generate_map called once on a new Game, for every          *)
(* num_nodes from -1 to MaxNodes and every selection random.sample can draw *)

MaxNodes == 7

GenerateMapCall(num_nodes) ==
    /\ calls = 0
    /\ \E sample \in Samples(IF num_nodes \in 0..Len(AVAILABLE_NODES) THEN num_nodes ELSE 0) :
           LET out == generate_map(num_nodes, sample)
           IN  /\ game_map' = out.game_map
               /\ ret' = [raised |-> out.raised, num_nodes |-> num_nodes]
    /\ last' = Returned("generate_map")
    /\ calls' = calls + 1
    /\ UNCHANGED <<survivors, zombies, global_resources, pc, combatVars, decision, rng,
                   saved, io, threads, creation, game_day>>

InitMap ==
    /\ survivors = << >>
    /\ zombies = << >>
    /\ global_resources = InitialResources
    /\ pc = "idle"
    /\ NoCombat
    /\ NoCall

NextMap == \E num_nodes \in (0 - 1)..MaxNodes : GenerateMapCall(num_nodes)

SpecMap == InitMap /\ [][NextMap]_vars

\* the nodes a walk along recorded connections reaches from the nodes seen
RECURSIVE Reached(_, _)
Reached(map, seen) ==
    LET next == seen \cup UNION {{map[n].connected_nodes[i] :
                                      i \in DOMAIN map[n].connected_nodes} :
                                  n \in seen \cap DOMAIN map}
    IN  IF next = seen THEN seen ELSE Reached(map, next)

-----------------------------------------------------------------------------
(* SpecPersist: a Game of the rosters, days and ledgers below, whose        *)
(* survivors are changed by up to MaxCalls public operations, is saved and  *)
(* loaded again                                                              *)

PersistRosters ==
    { <<Weak>>, <<Fighter, Dead(Sniper)>>, <<Pregenerated>>, <<Feeble>>,
      <<add_item_to_inventory(learn_skill(Weak, "Mechanics", 1), "Medkit", 2)>> }

PersistDays == {1, 3, 7}

PersistLedgers ==
    {InitialResources, add_resource(add_resource(InitialResources, "Food", 42), "Water", 7)}

persistFrame ==
    <<zombies, global_resources, pc, combatVars, decision, rng, saved, hostVars>>

\* survivors[k].learn_skill(skill_name, level)
LearnSkillCall(k, skill_name, level) ==
    /\ Idle
    /\ survivors' = [survivors EXCEPT ![k] = learn_skill(@, skill_name, level)]
    /\ last' = Returned("learn_skill")
    /\ ret' = None
    /\ calls' = calls + 1
    /\ UNCHANGED persistFrame

\* survivors[k].add_trait(trait_name)
AddTraitCall(k, trait_name) ==
    /\ Idle
    /\ survivors' = [survivors EXCEPT ![k] = add_trait(@, trait_name)]
    /\ last' = Returned("add_trait")
    /\ ret' = None
    /\ calls' = calls + 1
    /\ UNCHANGED persistFrame

\* survivors[k].add_item_to_inventory(item_name, quantity), quantity >= 1
AddItemCall(k, item_name, quantity) ==
    /\ Idle
    /\ survivors' = [survivors EXCEPT ![k] = add_item_to_inventory(@, item_name, quantity)]
    /\ last' = Returned("add_item_to_inventory")
    /\ ret' = None
    /\ calls' = calls + 1
    /\ UNCHANGED persistFrame

\* g.save_to_file(path); loaded = Game.load_from_file(path): the Game saved
\* is left as it is, ret holds what was saved and the Game loaded
SaveLoadCall ==
    /\ pc = "idle"
    /\ last.op # "load_from_file"
    /\ ret' = [ saved  |-> [game_day |-> game_day, global_resources |-> global_resources,
                            survivors |-> survivors],
                loaded |-> load_from_file(
                               save_to_file(game_day, global_resources, survivors)) ]
    /\ last' = Returned("load_from_file")
    /\ UNCHANGED <<survivors, calls, persistFrame>>

InitPersist ==
    /\ survivors \in PersistRosters
    /\ zombies = << >>
    /\ global_resources \in PersistLedgers
    /\ pc = "idle"
    /\ NoCombat
    /\ calls = 0
    /\ last = Returned("none")
    /\ ret = None
    /\ decision = NoDecision
    /\ io = NoIO /\ threads = NoThreads /\ creation = NoCreation
    /\ game_day \in PersistDays /\ game_map = << >>
    /\ rng = Unseeded
    /\ saved = None

NextPersist ==
    \/ \E k \in DOMAIN survivors, a \in Amounts : TakeDamageCall(k, a)
    \/ \E k \in DOMAIN survivors, a \in Amounts : HealCall(k, a)
    \/ \E k \in DOMAIN survivors, a \in Amounts : GainStressCall(k, a)
    \/ \E k \in DOMAIN survivors, a \in Amounts : ReduceStressCall(k, a)
    \/ \E k \in DOMAIN survivors, level \in {0, 2} : LearnSkillCall(k, "Mechanics", level)
    \/ \E k \in DOMAIN survivors, trait_name \in {"Brave", "Tough"} : AddTraitCall(k, trait_name)
    \/ \E k \in DOMAIN survivors, quantity \in {1, 3} : AddItemCall(k, "Medkit", quantity)
    \/ SaveLoadCall

SpecPersist == InitPersist /\ [][NextPersist]_vars

\* the fields of a survivor the round trip is to preserve
SurvivorFields(s) ==
    [ name |-> s.name, attributes |-> s.attributes, skills |-> s.skills,
      traits |-> s.traits, inventory |-> s.inventory,
      max_hp |-> s.max_hp, current_hp |-> s.current_hp,
      max_stress |-> s.max_stress, current_stress |-> s.current_stress,
      is_alive |-> s.is_alive, is_injured |-> s.is_injured,
      is_stressed |-> s.is_stressed ]

-----------------------------------------------------------------------------
(* SpecSkill: calculate_action_success_chance called once on a party and   *)
(* once more on the same party with one recommended skill of one           *)
(* participant removed, as tests/test_event_resolver.py compares them      *)

SkillParties ==
    { <<Fighter>>, <<Sniper, Scout>>, <<Titan, Fighter>>,
      <<learn_skill(Weak, "Mechanics", 2)>>, <<learn_skill(Weak, "Scouting", 1), Weak>> }

\* the survivor as it is without having learned skill_name
Unskilled(s, skill_name) ==
    [s EXCEPT !.skills = [n \in DOMAIN s.skills \ {skill_name} |-> s.skills[n]]]

\* chance_with and chance_no of test_calculate_chance_skill_bonus, for
\* participant k of survs and a skill of level >= 1 that action_obj recommends
SkillBonusCall(survs, k, skill_name, action_obj, action_type, danger) ==
    /\ calls = 0
    /\ skill_name \in DOMAIN action_obj.recommended_skills
    /\ skill_name \in DOMAIN survs[k].skills
    /\ survs[k].skills[skill_name] >= 1
    /\ last' = Returned("calculate_action_success_chance")
    /\ ret' = [ action_type |-> action_type,
                skill_level |-> survs[k].skills[skill_name],
                chance_with |-> calculate_action_success_chance(
                                    survs, action_obj, action_type, danger),
                chance_no   |-> calculate_action_success_chance(
                                    [survs EXCEPT ![k] = Unskilled(@, skill_name)],
                                    action_obj, action_type, danger) ]
    /\ calls' = calls + 1
    /\ UNCHANGED <<hostVars, decision, rng, saved, survivors, zombies, global_resources, pc, combatVars>>

NextSkill ==
    \E survs \in SkillParties, action_obj \in {ScavengeFood, ClearInfestation, CraftAmmunition},
       action_type \in {"quest", "base_job", "event"}, danger \in DangerModifiers :
        \E k \in DOMAIN survs, skill_name \in DOMAIN action_obj.recommended_skills :
            SkillBonusCall(survs, k, skill_name, action_obj, action_type, danger)

SpecSkill == InitLedger /\ [][NextSkill]_vars

-----------------------------------------------------------------------------
(* SpecJobs: up to MaxCalls calls of resolve_action with the shipped       *)
(* quests and base jobs, from the ledger of a new game                     *)

\* AVAILABLE_QUESTS and AVAILABLE_BASE_JOBS
ShippedActions ==
    { ScavengeFood, ClearInfestation, FindMissingTrader, RepairLocalGenerator,
      ScrapSalvage, VehicleMaintenance, GuardDuty, RestAndRecover, CraftAmmunition }

InitJobs ==
    /\ survivors \in {<<Fighter>>, <<learn_skill(Weak, "Mechanics", 1), Sniper>>}
    /\ zombies = << >>
    /\ global_resources = InitialResources
    /\ pc = "idle"
    /\ NoCombat
    /\ NoCall

NextJobs ==
    \E who \in Participants :
        \E action_obj \in ShippedActions, danger \in {0, 12}, roll \in Rolls,
           injury_rolls \in [DOMAIN who -> HitRolls] :
            ResolveActionCall(who, action_obj, danger, roll, injury_rolls)

SpecJobs == InitJobs /\ [][NextJobs]_vars

-----------------------------------------------------------------------------
(* Properties *)

CombatRunning == last = [op |-> "resolve_combat", state |-> "running"]

CombatReturned == last = Returned("resolve_combat")

\* C1: a call of resolve_combat always returns, and the total_rounds it
\* returns is at most 100, whatever the rosters, the hit chances and the
\* rolls
C1_CombatReturnsWithinCap ==
    CombatRunning ~> (CombatReturned /\ outcome_summary.total_rounds <= 100)

\* a combat in which no attack can hit returns after the 100th round
C1_NoHitCombatReturned ==
    /\ CombatReturned
    /\ survivors = <<Ghost>> /\ zombies = <<Wall>>
    /\ ret.total_rounds = 100
    /\ ret.stalemate

\* C2: whatever the rosters, empty and all-dead ones included, exactly one
\* of the flags victory, defeat, stalemate of the returned summary is true
C2_ExactlyOneFlag ==
    CombatReturned =>
        Cardinality({f \in {"victory", "defeat", "stalemate"} : ret[f]}) = 1

\* C3: for every roll in 1..100 and chance in 0..100 the classification of
\* resolve_action and of make_decision selects exactly one of the four
\* tiers, critical_success only when roll <= chance and critical_failure
\* only when roll > chance
C3_ExactlyOneTier ==
    last.op \in {"resolve_action: tier", "make_decision: outcome_type"} =>
        /\ Cardinality(ret.tiers) = 1
        /\ ret.tiers \subseteq {"critical_success", "success",
                                "critical_failure", "failure"}
        /\ "critical_success" \in ret.tiers => ret.roll <= ret.chance
        /\ "critical_failure" \in ret.tiers => ret.roll > ret.chance

\* resolve_action selects critical_failure: a roll of 5 above a chance of 4
C3_CriticalFailureSelected ==
    /\ last.op = "resolve_action: tier"
    /\ ret.tiers = {"critical_failure"}
    /\ ret.roll = 5 /\ ret.chance = 4

\* C4: the four chance calculators return a value between 0 and 100 for all
\* parties, skill levels, attributes, defenses, base chances, danger
\* modifiers and environment flags (value2 is the value doubled)
C4_ChanceWithinBounds ==
    last.op \in {"calculate_action_success_chance", "calculate_survivor_hit_chance",
                 "calculate_zombie_hit_chance", "calculate_choice_specific_chance"} =>
        0 <= ret.value2 /\ ret.value2 <= 2 * 100

\* the action chance of a party whose bonuses run far beyond 100 is 100
C4_ActionChanceCapped ==
    /\ last.op = "calculate_action_success_chance"
    /\ ret.value2 = 2 * 100

\* C5: a call of take_damage, gain_stress, reduce_stress or heal on a dead
\* survivor, or of take_damage on a dead zombie, changes none of the
\* actor's current_hp, current_stress and is_alive, whatever the amount
C5_DeadActorsInert ==
    [][ /\ \A k \in DOMAIN survivors :
              ~survivors[k].is_alive =>
                  /\ survivors'[k].current_hp = survivors[k].current_hp
                  /\ survivors'[k].current_stress = survivors[k].current_stress
                  /\ survivors'[k].is_alive = survivors[k].is_alive
        /\ \A k \in DOMAIN zombies :
              ~zombies[k].is_alive =>
                  /\ zombies'[k].current_hp = zombies[k].current_hp
                  /\ zombies'[k].is_alive = zombies[k].is_alive ]_vars

C7_LedgerNeverNegative ==
    \A n \in DOMAIN global_resources : global_resources[n] >= 0

\* C8: remove_resource(name, qty) returns False and leaves the ledger
\* unchanged when qty exceeds the current quantity of name (0 for an absent
\* name); otherwise it returns True and decreases that entry alone by qty
C8_RemoveResourceContract ==
    [][ \A n \in ResourceNames, q \in Quantities :
            RemoveResourceCall(n, q) =>
                IF q > Quantity(global_resources, n)
                THEN ret' = FALSE /\ global_resources' = global_resources
                ELSE /\ ret' = TRUE
                     /\ DOMAIN global_resources' = DOMAIN global_resources \cup {n}
                     /\ \A m \in DOMAIN global_resources' :
                            global_resources'[m] =
                                Quantity(global_resources, m) - (IF m = n THEN q ELSE 0)
      ]_vars

\* C9: max_hp is 40 + 10 * CON and max_stress is 40 + 10 * SAN, and after any
\* sequence of take_damage, heal, gain_stress and reduce_stress calls with
\* non-negative amounts both pools lie between 0 and their maximum
C9_PoolsWithinBounds ==
    \A k \in DOMAIN survivors :
        LET s == survivors[k]
        IN  /\ s.max_hp = 40 + 10 * s.attributes.CON
            /\ s.max_stress = 40 + 10 * s.attributes.SAN
            /\ 0 <= s.current_hp /\ s.current_hp <= s.max_hp
            /\ 0 <= s.current_stress /\ s.current_stress <= s.max_stress

\* a wounded survivor has gained more stress than the pool holds, and the
\* pool is filled to max_stress and no further
C9_StressFilledToMaximum ==
    /\ last = Returned("gain_stress")
    /\ \E k \in DOMAIN survivors :
          /\ 0 < survivors[k].current_hp
          /\ survivors[k].current_hp < survivors[k].max_hp
          /\ survivors[k].current_stress = survivors[k].max_stress

\* the case of C10: the combat began with living survivors and living
\* zombies and has returned, every survivor attack hit, no zombie attack hit
AllHitsNoneTaken ==
    /\ CombatReturned
    /\ hits.hits_needed > 0
    /\ hits.all_survivor_hits
    /\ hits.no_zombie_hits

\* C10: when every survivor attack hits and no zombie attack hits, the
\* returned victory flag is true, for any living rosters, zombie health,
\* survivor strength and danger level
C10_AllHitsVictory == AllHitsNoneTaken => ret.victory

\* C10, amended: when every survivor attack hits and no zombie attack hits,
\* and the zombies can be destroyed within the 100 rounds (the hits needed
\* at the least weapon damage, summed over the zombies, are at most 100),
\* the returned victory flag is true
C10_AllHitsVictoryWithinCap ==
    (AllHitsNoneTaken /\ hits.hits_needed <= 100) => ret.victory

\* a victory won by the hit of the 100th round
C10_VictoryInLastRound ==
    /\ AllHitsNoneTaken
    /\ hits.hits_needed = 100
    /\ ret.total_rounds = 100
    /\ ret.victory

\* C19: take_damage(amount) on a living survivor takes
\* ceil(amount * (100 - min(5 * CON, 50)) / 100) from current_hp, floored at
\* 0, and then is_injured is (current_hp < max_hp / 2)
C19_DamageIsExactCeiling ==
    last.op = "Survivor.take_damage" =>
        LET s == ret.before
            actual == Ceil(ret.amount * (100 - Min(5 * s.attributes.CON, 50)), 100)
            hp == Max(0, s.current_hp - actual)
        IN  /\ ret.after.current_hp = hp
            /\ ret.after.is_injured = (2 * hp < s.max_hp)

\* C20: chance_check(p) raises exactly for p outside [0, 100] and draws
\* nothing then; otherwise it draws one d100 roll in 1..100 and succeeds
\* exactly when roll <= p, so never for p = 0 and always for p = 100;
\* roll_dice(n) raises exactly for n < 1 and otherwise returns 1..n
C20_ChanceCheckContract ==
    /\ last.op = "chance_check" =>
           /\ ret.raised = ~(0 <= ret.percentage2 /\ ret.percentage2 <= 2 * 100)
           /\ ret.raised => ret.roll = 0 /\ ~ret.value
           /\ ~ret.raised =>
                  /\ ret.roll \in 1..100
                  /\ ret.value = (2 * ret.roll <= ret.percentage2)
                  /\ ret.percentage2 = 0 => ~ret.value
                  /\ ret.percentage2 = 2 * 100 => ret.value
    /\ last.op = "roll_dice" =>
           /\ ret.raised = (ret.num_sides < 1)
           /\ ret.raised => ret.value = 0
           /\ ~ret.raised => 1 <= ret.value /\ ret.value <= ret.num_sides

\* chance_check(100) drew the roll 100 and succeeded
C20_CertainCheckOnHighestRoll ==
    /\ last.op = "chance_check"
    /\ ret.percentage2 = 2 * 100
    /\ ret.roll = 100
    /\ ret.value

\* C15: resolve_action on a descriptor whose Injury_chance is a percentage
\* in [0, 100] never raises: it returns a (succeeded, wasCritical) pair for
\* every roll and every chance, a critical failure included
C15_ResolveActionNeverRaises ==
    ActionDone => ~ret.raised /\ ret.value \in BOOLEAN \X BOOLEAN

StressRelieved(Who) ==
    \A k \in Who :
        survivors[k].current_stress =
            Max(0, saved.start.survivors[k].current_stress - 10 * SuccessFactor)

\* C17 as stated: after a successful resolve_action the ledger entry of
\* every reward key other than Experience has grown by the quantity, doubled
\* on a critical success, no Experience entry has appeared, and the stress
\* of every participant has fallen by 10 (20), floored at 0
C17_EveryRewardKeyCredited ==
    ActionSucceeded =>
        LET rewards == saved.call.action_obj.rewards
        IN  /\ \A i \in DOMAIN rewards :
                   rewards[i][1] # "Experience" =>
                       Quantity(global_resources, rewards[i][1]) =
                           Quantity(saved.start.global_resources, rewards[i][1])
                               + rewards[i][2] * SuccessFactor
            /\ "Experience" \notin DOMAIN global_resources
            /\ StressRelieved(DOMAIN survivors)

\* C17, amended: the same for the reward keys that are neither Experience
\* nor end in _crafted, and for the participants that are alive
C17_PlainRewardKeysCredited ==
    ActionSucceeded =>
        LET rewards == saved.call.action_obj.rewards
        IN  /\ \A i \in DOMAIN rewards :
                   rewards[i][1] # "Experience" /\ ~EndsWithCrafted(rewards[i][1]) =>
                       Quantity(global_resources, rewards[i][1]) =
                           Quantity(saved.start.global_resources, rewards[i][1])
                               + rewards[i][2] * SuccessFactor
            /\ "Experience" \notin DOMAIN global_resources
            /\ StressRelieved({k \in DOMAIN survivors : survivors[k].is_alive})
            /\ \A k \in DOMAIN survivors :
                   ~survivors[k].is_alive => survivors[k] = saved.start.survivors[k]

\* a success of ScavengeFood raised the scrap held from 100 to 110 and the
\* food from 0 to 40, took one participant's stress from 5 to 0 and
\* another's down by 10
C17_ScrapAddedStressFloored ==
    /\ ActionSucceeded
    /\ saved.call.action_obj = ScavengeFood
    /\ SuccessFactor = 1
    /\ Quantity(saved.start.global_resources, "Scrap") = 100
    /\ Quantity(global_resources, "Scrap") = 110
    /\ Quantity(global_resources, "Food") = 40
    /\ Len(survivors) = 2
    /\ saved.start.survivors[1].current_stress = 5 /\ survivors[1].current_stress = 0
    /\ saved.start.survivors[2].current_stress > 10
    /\ survivors[2].current_stress = saved.start.survivors[2].current_stress - 10

\* C18: after a successful resolve_action whose rewards hold
\* Ammunition_crafted, the ammunition was made by craft_item: when the ledger
\* held the scrap its recipe requires for the quantity rewarded, scrap was
\* debited, at least what one recipe requires; when it held none, the
\* ammunition was granted and no scrap debited
C18_CraftedRewardDebitsRecipe ==
    ActionSucceeded =>
        LET rewards == saved.call.action_obj.rewards
            before  == saved.start.global_resources
        IN  \A i \in DOMAIN rewards :
                EndsWithCrafted(rewards[i][1]) =>
                    LET quantity == rewards[i][2] * SuccessFactor
                    IN  /\ Quantity(global_resources, "Ammunition") > Quantity(before, "Ammunition")
                        /\ IF CraftAvailable(before, CraftRequired(AmmunitionRecipe, 0, quantity))
                           THEN Quantity(global_resources, "Scrap") <=
                                    Quantity(before, "Scrap")
                                        - CraftRequired(AmmunitionRecipe, 0, 1).Scrap
                           ELSE Quantity(global_resources, "Scrap") = Quantity(before, "Scrap")

\* C12: make_decision offers the choice numbered i exactly when (its
\* prerequisites hold no skill group, or some participant meets one of the
\* skill thresholds listed) and (they hold no attribute group, or some
\* participant meets one of the attribute thresholds listed); a choice
\* without prerequisites is offered for every participant list
C12_OfferedIffPrerequisitesMet ==
    last.op = "make_decision" =>
        \A i \in DOMAIN decision.choices :
            LET prerequisites == decision.choices[i].prerequisites
                skill_met ==
                    \E k \in DOMAIN AffectedSurvivors, n \in DOMAIN prerequisites.skill :
                        SkillLevel(AffectedSurvivors[k], n) >= prerequisites.skill[n]
                attribute_met ==
                    \E k \in DOMAIN AffectedSurvivors, a \in DOMAIN prerequisites.attribute :
                        AttributeValue(AffectedSurvivors[k], a) >= prerequisites.attribute[a]
            IN  /\ i \in decision.available <=>
                       /\ "skill" \notin DOMAIN prerequisites \/ skill_met
                       /\ "attribute" \notin DOMAIN prerequisites \/ attribute_met
                /\ prerequisites = << >> => i \in decision.available

\* a choice with a skill and an attribute group is offered to two
\* participants of whom neither meets both groups alone
C12_OfferedByTwoParticipants ==
    /\ last.op = "make_decision"
    /\ Len(decision.who) = 2
    /\ \E i \in decision.available :
           /\ DOMAIN decision.choices[i].prerequisites = {"skill", "attribute"}
           /\ \A k \in DOMAIN AffectedSurvivors :
                  ~can_choose(decision.choices[i], <<AffectedSurvivors[k]>>)

\* C13: when no choice passes the filter, make_decision returns "failure"
\* with the diagnostic bundle and without an error, input() was never called
\* and no roll was drawn; it never waits for input
C13_NoViableChoiceForcedFailure ==
    last.op = "make_decision" /\ decision.available = {} =>
        /\ DecisionReturned
        /\ pc # "input"
        /\ ret = [raised |-> FALSE, outcome_type |-> "failure", effects |-> NoViableChoices]
        /\ decision.inputs = 0
        /\ decision.rolls = 0
        /\ rng.draws = << >>

\* make_decision returned from a list of two choices, none of which the two
\* participants could be offered
C13_TwoChoicesNoneOffered ==
    /\ DecisionReturned
    /\ Len(decision.choices) = 2
    /\ Len(decision.who) = 2
    /\ decision.available = {}
    /\ ret.outcome_type = "failure"

\* C14: when make_decision returns after a choice was made, the bundle
\* returned is the chosen choice's effects_on_success on success and
\* critical_success and its effects_on_failure on failure and
\* critical_failure, and the participants and the ledger are as they were
\* before the call
C14_BundleReturnedNothingApplied ==
    /\ last.op = "make_decision" =>
           /\ survivors = <<Fighter, Sniper>>
           /\ global_resources = InitialResources
    /\ DecisionReturned /\ decision.chosen # 0 =>
           LET chosen_choice_obj == decision.choices[decision.chosen]
           IN  /\ ret.outcome_type \in {"success", "critical_success"} =>
                      ret.effects = chosen_choice_obj.effects_on_success
               /\ ret.outcome_type \in {"failure", "critical_failure"} =>
                      ret.effects = chosen_choice_obj.effects_on_failure
               /\ ret.outcome_type \in Tiers

\* a critical failure returned the effects_on_failure bundle of the choice
\* made, which differs from its effects_on_success bundle
C14_CriticalFailureBundle ==
    /\ DecisionReturned
    /\ decision.chosen # 0
    /\ ret.outcome_type = "critical_failure"
    /\ ret.effects = decision.choices[decision.chosen].effects_on_failure
    /\ ret.effects # decision.choices[decision.chosen].effects_on_success

C21_DebitsSkillReducedRequirement ==
    CraftDone /\ CraftProceeded =>
        \A n \in DOMAIN saved.start.global_resources :
            IF n \in DOMAIN CraftRecipe.requires
            THEN global_resources[n] = saved.start.global_resources[n] - CraftAsked(n)
            ELSE global_resources[n] >= saved.start.global_resources[n]

\* a Medkit crafted at Mechanics 1 from Scrap 10 and ElectronicParts 5 left
\* Scrap 6 and ElectronicParts 4
C21_MedkitByMechanic ==
    /\ CraftDone
    /\ saved.call.recipe_id = "Medkit" /\ saved.call.quantity = 1
    /\ CraftMechanics = 1
    /\ saved.start.global_resources.Scrap = 10
    /\ saved.start.global_resources.ElectronicParts = 5
    /\ global_resources.Scrap = 6
    /\ global_resources.ElectronicParts = 4

\* C22: when the recipe id names no recipe, or the ledger holds less than the
\* skill-reduced amount of any one required resource, craft_item returns
\* success false with an empty consumed map, and the ledger and the crafter
\* are as they were before the call.
C22_RefusedCraftChangesNothing ==
    CraftDone /\ ~CraftProceeded =>
        /\ ~ret.raised
        /\ ret.value.success = FALSE
        /\ ret.value.produced_qty = 0
        /\ DOMAIN ret.value.consumed = {}
        /\ global_resources = saved.start.global_resources
        /\ survivors = saved.start.survivors

\* a Medkit asked of a crafter, with scrap enough and
\* no electronic parts: nothing was taken
C22_OneResourceShort ==
    /\ CraftDone
    /\ saved.call.recipe_id = "Medkit" /\ saved.call.quantity = 1
    /\ saved.start.survivors # << >>
    /\ saved.start.global_resources.Scrap = 10
    /\ saved.start.global_resources.ElectronicParts = 0
    /\ ret.value.success = FALSE
    /\ global_resources.Scrap = 10

\* a step of the zombies' loop in which survivor t was hit for damage d
ZombieHit(t, d) ==
    /\ pc = "zombies"
    /\ idx <= Len(active_zombies)
    /\ survivors[t].is_alive
    /\ survivors'[t] # survivors[t]
    /\ d \in {zombies[active_zombies[idx]].damage, zombies[active_zombies[idx]].damage * 2}
    /\ survivors'[t].current_hp = Survivor_take_damage(survivors[t], d).current_hp

\* C27: on every zombie hit in resolve_combat the struck survivor's stress
\* rises by the mitigated value of half the damage dealt,
\* ceil(d / 2 * (100 - min(5 * SAN, 50)) / 100), whether or not the hit
\* incapacitates the survivor.
C27_EveryZombieHitAddsStress ==
    [][\A t \in DOMAIN survivors : \A d \in 1..(2 * 100) :
          ZombieHit(t, d) =>
              survivors'[t].current_stress =
                  survivors[t].current_stress
                  + CeilReduced(d, Min(survivors[t].attributes.SAN * 5, 50))]_vars

\* the blocking call of the worker's script, where it has one
HasPrompt == \E i \in DOMAIN threads.worker.script : threads.worker.script[i].op # "print"

PromptPos == CHOOSE i \in DOMAIN threads.worker.script : threads.worker.script[i].op # "print"

PromptOp == threads.worker.script[PromptPos]

\* the worker is inside ev.wait() / has returned from its blocking call
WorkerBlocked == threads.worker.pc = "wait"

WorkerAnswered == HasPrompt /\ threads.worker.pos > PromptPos

\* the responses the UI provided to the worker's blocking call while it was
\* pending
AcceptedAnswers == SelectSeq(threads.ui.accepted, LAMBDA a : a.to = PromptOp.op)

\* C23: present_choices and input block the worker until the UI thread calls
\* provide_choice (provide_input) while the prompt is pending: the worker is
\* past ev.wait() only if such a call was made.  While the worker is blocked,
\* get_pending_choices reports the prompt and the options (get_pending_prompt
\* the prompt of input).  The call returns the value provided (the last one,
\* when several were provided while it was pending), and after it returned
\* no prompt and no choices are pending.
C23_PromptBlocksUntilProvided ==
    /\ WorkerBlocked /\ PromptOp.op = "present_choices" =>
           get_pending_choices(io) = [prompt |-> Str(PromptOp.prompt),
                                      options |-> PromptOp.options]
    /\ WorkerBlocked /\ PromptOp.op = "input" =>
           get_pending_prompt(io) = Str(PromptOp.prompt)
    /\ threads.worker.pc = "consume" \/ WorkerAnswered => AcceptedAnswers # << >>
    /\ WorkerAnswered =>
           /\ threads.worker.returned = Str(AcceptedAnswers[Len(AcceptedAnswers)].value)
           /\ get_pending_prompt(io) = None
           /\ get_pending_choices(io) = None

\* the UI saw the choices of "Pick?" pending, provided "2" once, and the
\* worker's present_choices returned "2"
C23_SecondOptionProvided ==
    /\ WorkerAnswered
    /\ PromptOp = ChoicesOp("Pick?", <<"one", "two">>)
    /\ threads.ui.seen = [choices |-> [prompt |-> Str("Pick?"), options |-> <<"one", "two">>]]
    /\ threads.ui.accepted = <<[to |-> "present_choices", value |-> "2"]>>
    /\ threads.worker.returned = Str("2")

\* the lines whose print call has returned
Printed ==
    {threads.worker.script[i].text :
        i \in {j \in 1..(threads.worker.pos - 1) : threads.worker.script[j].op = "print"}}

Occurrences(line, lines) == Cardinality({i \in DOMAIN lines : lines[i] = line})

\* C24: with print on the worker thread and pop_output on the UI thread, and
\* fewer than 1000 lines buffered, every line printed is returned by exactly
\* one pop_output call: between the UI's calls, a line whose print returned
\* is once in what the pops returned or in the buffer the next pop returns.
C24_EveryLineInOnePop ==
    threads.ui.pc = "idle" =>
        \A line \in Printed :
            Occurrences(line, threads.ui.popped \o io.heap[io.output]) = 1

\* C29: in every reachable state each of the seven attributes of every
\* survivor, and of the character being created, lies in 1..10, whatever
\* values were passed to the Survivor constructor or chosen in the
\* character-creation menu.
C29_AttributesWithinRange ==
    /\ \A i \in DOMAIN survivors : \A attr \in AttributeNames :
           survivors[i].attributes[attr] \in 1..10
    /\ creation # NoCreation =>
           \A attr \in AttributeNames : creation.current_attributes[attr] \in 1..10

\* C30: in every state reached through gain_stress and reduce_stress with
\* non-negative amounts, is_stressed is TRUE exactly when current_stress is
\* above three quarters of max_stress.
C30_StressedIffAboveThreshold ==
    \A i \in DOMAIN survivors :
        survivors[i].is_stressed = (4 * survivors[i].current_stress > 3 * survivors[i].max_stress)

\* reduce_stress lowered the stress of a stressed survivor and left it above
\* the threshold: the flag is still set
C30_ReducedStillStressed ==
    /\ last.op = "reduce_stress"
    /\ ret.before.is_stressed
    /\ survivors[1].current_stress < ret.before.current_stress
    /\ survivors[1].is_stressed

\* C28: in resolve_combat a zombie destroyed in the survivors' phase leaves
\* the active roster in the same step, so that every zombie a later attack
\* targets, and every zombie that attacks, is alive; the zombies' phase is
\* never entered with no zombie left, and once the last zombie has fallen
\* no survivor changes any more.
C28_DestroyedZombiesLeaveTheFight ==
    /\ [](\A i \in DOMAIN active_zombies :
              /\ zombies[active_zombies[i]].is_alive
              /\ zombies[active_zombies[i]].current_hp > 0)
    /\ [](pc = "zombies" => active_zombies # << >>)
    /\ [][last.op = "resolve_combat" /\ active_zombies = << >>
              => survivors' = survivors]_vars

\* two zombies fought, the zombies hit at least once, and the last of them
\* fell in a survivors' phase that a survivor lived through
C28_BothZombiesDestroyed ==
    /\ pc = "summary"
    /\ Len(zombies) = 2
    /\ \A z \in DOMAIN zombies : ~zombies[z].is_alive
    /\ active_zombies = << >>
    /\ ~hits.no_zombie_hits
    /\ \E i \in DOMAIN survivors : survivors[i].is_alive

\* C26: after Game.generate_map(n), for every n and every selection drawn,
\* the generated map is connected (every node is reached from every other
\* along recorded connections), every connection is recorded on both of its
\* nodes, and every neighbour id is a node of the map.
C26_GeneratedMapConnected ==
    last.op = "generate_map" =>
        /\ \A start \in DOMAIN game_map : Reached(game_map, {start}) = DOMAIN game_map
        /\ \A a \in DOMAIN game_map : \A i \in DOMAIN game_map[a].connected_nodes :
               LET b == game_map[a].connected_nodes[i]
               IN  /\ b \in DOMAIN game_map
                   /\ \E j \in DOMAIN game_map[b].connected_nodes :
                          game_map[b].connected_nodes[j] = a

\* a map of four nodes was generated, as in the test: a chain with two inner
\* nodes
C26_FourNodeChain ==
    /\ last.op = "generate_map"
    /\ ret.num_nodes = 4
    /\ ret.raised = "none"
    /\ Cardinality(DOMAIN game_map) = 4
    /\ Cardinality({n \in DOMAIN game_map : Len(game_map[n].connected_nodes) = 2}) = 2

C31_InjuredIffBelowHalf ==
    \A k \in DOMAIN survivors :
        survivors[k].is_injured = (2 * survivors[k].current_hp < survivors[k].max_hp)

\* the bonus C32 states for one participant: 5 per skill level above the
\* threshold and 2 per attribute point above the threshold, for the
\* prerequisites the participant exceeds
BonusAboveThreshold(survivor, prerequisites) ==
    LET skill == IF "skill" \in DOMAIN prerequisites THEN prerequisites.skill ELSE << >>
        attribute == IF "attribute" \in DOMAIN prerequisites
                     THEN prerequisites.attribute ELSE << >>
        above == {n \in DOMAIN skill : SkillLevel(survivor, n) > skill[n]}
        over  == {a \in DOMAIN attribute : survivor.attributes[a] > attribute[a]}
    IN  SumOver(above, [n \in above |-> 5 * (survivor.skills[n] - skill[n])])
        + SumOver(over, [a \in over |-> 2 * (survivor.attributes[a] - attribute[a])])

\* C32: calculate_choice_specific_chance returns the base chance plus, for
\* every participant, 5 * (skill level - threshold) for each skill
\* prerequisite the participant exceeds and 2 * (attribute value - threshold)
\* for each attribute prerequisite the participant exceeds, clamped to
\* 0..100; a participant exactly at a threshold adds nothing for it
C32_ChoiceChanceIsBonusAboveThreshold ==
    [][\A base \in BaseChances, prerequisites \in Prerequisites, survs \in Parties :
           ChoiceChanceCall(Choice(base, prerequisites), survs) =>
               ret'.value2 =
                   2 * Clamp(base + SumOver(DOMAIN survs,
                                 [k \in DOMAIN survs |->
                                     BonusAboveThreshold(survs[k], prerequisites)]))]_vars

\* C33: for any action, action type and danger modifier, a participant
\* holding a recommended skill at level >= 1 yields a strictly greater
\* calculate_action_success_chance than an otherwise identical participant
\* without that skill
C33_SkillStrictlyRaisesChance ==
    last.op = "calculate_action_success_chance" => ret.chance_with > ret.chance_no

\* C33, as the code has it: for the action types quest and base_job the
\* chance with the skill is the chance without it plus 5 per level, unless
\* the clamp to 0..100 cuts it: it is never smaller, and it is strictly
\* greater unless both chances are 0 or both are 100; for any other action
\* type the two chances are equal
C33_SkillRaisesChanceUpToClamp ==
    last.op = "calculate_action_success_chance" =>
        IF ret.action_type \in {"quest", "base_job"}
        THEN /\ ret.chance_with >= ret.chance_no
             /\ ret.chance_with - ret.chance_no <= SKILL_BONUS_PER_LEVEL * ret.skill_level
             /\ \/ ret.chance_with > ret.chance_no
                \/ ret.chance_with = 0
                \/ ret.chance_no = 100
             /\ (0 < ret.chance_no /\ ret.chance_with < 100) =>
                    ret.chance_with = ret.chance_no + SKILL_BONUS_PER_LEVEL * ret.skill_level
        ELSE ret.chance_with = ret.chance_no

\* a quest on which a level 2 skill raised an unclamped chance by 10
C33_TwoLevelsAddTen ==
    /\ last.op = "calculate_action_success_chance"
    /\ ret.action_type = "quest"
    /\ ret.skill_level = 2
    /\ ret.chance_no > 0
    /\ ret.chance_with = ret.chance_no + 10
    /\ ret.chance_with < 100

\* C34: after any sequence of resolve_action calls over the shipped quests
\* and base jobs, from a ledger of non-negative integers, every ledger
\* entry is still a non-negative integer
C34_LedgerOfNonNegativeIntegers ==
    \A n \in DOMAIN global_resources :
        QuantityType(n) = "int" /\ global_resources[n] >= 0

\* C35: with the thresholds 95 and 5, resolve_action and make_decision
\* classify a critical_success only when the chance is at least 95 and a
\* critical_failure only when the chance is below 5: for a chance in 5..94
\* no roll yields a critical tier
C35_CriticalTiersOnlyAtExtremeChances ==
    last.op \in {"resolve_action: tier", "make_decision: outcome_type"} =>
        /\ "critical_success" \in ret.tiers => ret.chance >= 95
        /\ "critical_failure" \in ret.tiers => ret.chance < 5
        /\ (5 <= ret.chance /\ ret.chance <= 94) =>
               ret.tiers \cap {"critical_success", "critical_failure"} = {}

\* make_decision classifies a critical success: the roll 95 at a chance of 95
C35_CriticalSuccessAtNinetyFive ==
    /\ last.op = "make_decision: outcome_type"
    /\ ret.tiers = {"critical_success"}
    /\ ret.roll = 95 /\ ret.chance = 95

\* C36: whenever at least one choice is available, make_decision accepts
\* every number of the range it prompts for, 1 .. number of available
\* choices, and maps it to an available choice (so that a player who always
\* answers within that range reaches the resolution), for every
\* combination of locked and available choices
C36_PromptedRangeAccepted ==
    pc = "input" =>
        \A player_input \in 1..Cardinality(decision.available) :
            /\ player_input \in decision.available
            /\ can_choose(decision.choices[player_input], AffectedSurvivors)

\* C37: when provide_input is called more than once for the same pending
\* input() prompt before the blocked caller resumes, input() returns the
\* first response that was provided
C37_InputReturnsFirstResponse ==
    WorkerAnswered /\ PromptOp.op = "input" =>
        threads.worker.returned = Str(AcceptedAnswers[1].value)

\* C38: resolve_action changes disjoint parts of the state per branch: on a
\* failure every ledger entry is as before the call, also when
\* fail_consequences names Scrap_loss or another key that is not acted on;
\* on a success every participant's current_hp, is_alive and is_injured are
\* as before the call
C38_BranchesChangeDisjointState ==
    /\ ActionFailed => global_resources = saved.start.global_resources
    /\ ActionSucceeded =>
           /\ DOMAIN survivors = DOMAIN saved.start.survivors
           /\ \A k \in DOMAIN survivors :
                  /\ survivors[k].current_hp = saved.start.survivors[k].current_hp
                  /\ survivors[k].is_alive = saved.start.survivors[k].is_alive
                  /\ survivors[k].is_injured = saved.start.survivors[k].is_injured

\* CraftAmmunition, whose fail_consequences name Scrap_loss, failed on a
\* ledger holding 100 Scrap, and the stress of its participant rose
C38_FailedCraftKeepsScrap ==
    /\ ActionFailed
    /\ saved.call.action_obj = CraftAmmunition
    /\ saved.start.global_resources.Scrap = 100
    /\ global_resources.Scrap = 100
    /\ \E k \in DOMAIN survivors :
           survivors[k].current_stress > saved.start.survivors[k].current_stress

\* C39: during character creation without the +100 cheat, the remaining
\* points pool is never negative after any sequence of attribute +1/-1
\* steps, trait toggles and skill toggles, and no two traits that conflict
\* with each other are selected at the same time
C39_PoolNeverNegativeNoConflicts ==
    (creation # NoCreation /\ creation.cheats = 0) =>
        /\ creation.points_pool >= 0
        /\ \A i, j \in DOMAIN creation.selected_traits :
               creation.selected_traits[j]
                   \notin AVAILABLE_TRAITS[creation.selected_traits[i]].conflicts

=============================================================================
